---- MODULE Spec2Model ----
(***************************************************************************)
(* AlphaOptions decision core: the risk engine (risk.py), the data model   *)
(* (models.py), the strategy engine (strategies.py) and the broker stub    *)
(* (broker.py).                                                            *)
(*                                                                         *)
(* Representation.  Decimal amounts are integers (whole dollars).  A       *)
(* percentage is an integer number of percent; a confidence is an integer  *)
(* number of hundredths.  Optional[X] is a sequence: <<>> is None and      *)
(* <<x>> is the value x.  A Python object that is compared by identity     *)
(* somewhere carries an extra field oid, its identity, which is not one of *)
(* its dataclass fields.                                                   *)
(***************************************************************************)
EXTENDS Integers, Sequences, FiniteSets, TLC

VARIABLES
    account_value,    \* RiskManager.account_value
    limits,           \* RiskManager.limits (a RiskLimits)
    daily_pnl,        \* RiskManager.daily_pnl
    open_positions,   \* RiskManager.open_positions (a list of Position)
    strategy,         \* a BaseStrategy object: its class and configuration
    sizer,            \* a PositionSizer object
    broker,           \* an AlpacaBroker object
    threads,          \* the calls of concurrent threads on one RiskManager
    call              \* the call in progress or last completed, with its result

vars == <<account_value, limits, daily_pnl, open_positions, strategy, sizer, broker, threads, call>>

\* ------------------------------------------------------------------ values

None == <<>>
Some(x) == <<x>>
IsNone(o) == o = <<>>
Val(o) == o[1]

\* int(x / y) of Python for y > 0: truncation toward zero.
IntDiv(x, y) == IF x >= 0 THEN x \div y ELSE -((-x) \div y)

\* value * Decimal(str(pct / 100)): exact decimal arithmetic; the amounts of
\* the model are chosen so that value * pct is a multiple of 100.
DecimalPct(value, pct) == (value * pct) \div 100

\* dates (datetime.date); only equality of dates is used
Today == "2024-03-15"
Tomorrow == "2024-03-16"

\* models.py OptionContract (the fields the decision core reads)
OptionContract(underlying, option_type, strike, expiration, bid, ask, last_price, delta) ==
    [underlying |-> underlying, option_type |-> option_type, strike |-> strike,
     expiration |-> expiration, bid |-> bid, ask |-> ask,
     last_price |-> last_price, delta |-> delta]

\* OptionContract.mid_price: (bid + ask) / 2 when both are present, else
\* last_price.  Quotes of the model have an even bid + ask.
mid_price(c) ==
    IF ~IsNone(c.bid) /\ ~IsNone(c.ask)
    THEN Some((Val(c.bid) + Val(c.ask)) \div 2)
    ELSE c.last_price

\* OptionContract.is_0dte(reference_date)
is_0dte(c, reference_date) == c.expiration = reference_date

\* Position.is_long
is_long(p) == p.side = "buy"

\* Position.notional_value
notional_value(p) == p.entry_price * p.quantity * 100

\* dataclass-generated Position.__eq__: field by field, identity aside
PositionEq(p, q) ==
    /\ p.contract = q.contract
    /\ p.quantity = q.quantity
    /\ p.entry_price = q.entry_price
    /\ p.side = q.side

\* ------------------------------------------------------------ RiskManager

\* RiskManager.portfolio_risk: the loop over the ledger, from index i on
RECURSIVE portfolio_risk_from(_, _)
portfolio_risk_from(positions, i) ==
    IF i > Len(positions) THEN 0
    ELSE (IF is_long(positions[i]) THEN notional_value(positions[i]) ELSE 0)
         + portfolio_risk_from(positions, i + 1)

\* the loop without its `if position.is_long`
RECURSIVE portfolio_risk_NoLongTest_from(_, _)
portfolio_risk_NoLongTest_from(positions, i) ==
    IF i > Len(positions) THEN 0
    ELSE notional_value(positions[i]) + portfolio_risk_NoLongTest_from(positions, i + 1)

portfolio_risk_NoLongTest(positions) == portfolio_risk_NoLongTest_from(positions, 1)

portfolio_risk(positions) == portfolio_risk_from(positions, 1)

\* RiskManager.portfolio_risk_pct, kept to whole percent (floor): comparing
\* it with an integer percentage by >= is exact.
portfolio_risk_pct(av, positions) ==
    IF av <= 0 THEN 0 ELSE (portfolio_risk(positions) * 100) \div av

Max2(a, b) == IF a >= b THEN a ELSE b

\* the budget left unclamped: max_risk - portfolio_risk
available_risk_budget_Unclamped(av, lim, positions) ==
    DecimalPct(av, lim.max_portfolio_risk_pct) - portfolio_risk(positions)

\* RiskManager.available_risk_budget
available_risk_budget(av, lim, positions) ==
    LET max_risk == DecimalPct(av, lim.max_portfolio_risk_pct)
    IN Max2(0, max_risk - portfolio_risk(positions))

\* RiskManager.calculate_max_loss: its own loop over the ledger
RECURSIVE calculate_max_loss_from(_, _)
calculate_max_loss_from(positions, i) ==
    IF i > Len(positions) THEN 0
    ELSE LET rest == calculate_max_loss_from(positions, i + 1)
         IN IF is_long(positions[i]) THEN notional_value(positions[i]) + rest
            ELSE rest

calculate_max_loss(positions) == calculate_max_loss_from(positions, 1)

\* sum(p.notional_value for p in open_positions if p.contract.underlying == underlying)
RECURSIVE underlying_exposure_from(_, _, _)
underlying_exposure_from(positions, underlying, i) ==
    IF i > Len(positions) THEN 0
    ELSE (IF positions[i].contract.underlying = underlying
          THEN notional_value(positions[i]) ELSE 0)
         + underlying_exposure_from(positions, underlying, i + 1)

\* the sum without its `if p.contract.underlying == underlying`
underlying_exposure_AnyUnderlying(positions, underlying) ==
    portfolio_risk_NoLongTest_from(positions, 1)

underlying_exposure(positions, underlying) ==
    underlying_exposure_from(positions, underlying, 1)

\* the reasons can_take_trade returns
DailyLossReason == [msg |-> "Daily loss limit reached"]
PortfolioRiskReason == [msg |-> "Portfolio risk limit reached"]
TradeRiskReason(risk, max_trade_risk) ==
    [msg |-> "Trade risk exceeds limit", trade_risk |-> risk,
     max_trade_risk |-> max_trade_risk]
PositionSizeReason(quantity) ==
    [msg |-> "Position size exceeds limit", quantity |-> quantity]
ConcentrationReason(underlying) ==
    [msg |-> "Concentration limit reached for", underlying |-> underlying]
ApprovedReason == [msg |-> "Trade approved"]

\* can_take_trade from its concentration check on (risk.py 160-175); the
\* variant below tests the exposure of an unpriced order too
concentration_check_Unpriced(av, lim, positions, order) ==
    LET underlying == order.contract.underlying
        exposure == underlying_exposure(positions, underlying)
        max_concentration == DecimalPct(av, lim.max_concentration_pct)
        new_exposure == exposure + (IF IsNone(order.limit_price) THEN 0
                                    ELSE Val(order.limit_price) * order.quantity * 100)
    IN IF new_exposure > max_concentration
       THEN <<FALSE, ConcentrationReason(underlying)>>
       ELSE <<TRUE, ApprovedReason>>

\* the concentration check testing the exposure held, without the order's
concentration_check_HeldOnly(av, lim, positions, order) ==
    LET underlying == order.contract.underlying
        exposure == underlying_exposure(positions, underlying)
        max_concentration == DecimalPct(av, lim.max_concentration_pct)
    IN IF ~IsNone(order.limit_price) /\ exposure > max_concentration
       THEN <<FALSE, ConcentrationReason(underlying)>>
       ELSE <<TRUE, ApprovedReason>>

concentration_check(av, lim, positions, order) ==
    LET underlying == order.contract.underlying
        exposure == underlying_exposure(positions, underlying)
        max_concentration == DecimalPct(av, lim.max_concentration_pct)
    IN IF ~IsNone(order.limit_price)
          /\ exposure + Val(order.limit_price) * order.quantity * 100
               > max_concentration
       THEN <<FALSE, ConcentrationReason(underlying)>>
       ELSE <<TRUE, ApprovedReason>>

\* can_take_trade from its single-trade-risk check on (risk.py 147-175)
trade_checks(av, lim, positions, order) ==
    LET max_trade_risk == DecimalPct(av, lim.max_single_trade_risk_pct) IN
    IF ~IsNone(order.limit_price)
       /\ Val(order.limit_price) * order.quantity * 100 > max_trade_risk
    THEN <<FALSE, TradeRiskReason(Val(order.limit_price) * order.quantity * 100,
                                  max_trade_risk)>>
    ELSE IF order.quantity > lim.max_position_size
    THEN <<FALSE, PositionSizeReason(order.quantity)>>
    ELSE concentration_check(av, lim, positions, order)

\* can_take_trade with the position-size check moved before the
\* single-trade-risk check
can_take_trade_SizeFirst(av, lim, pnl, positions, order) ==
    LET daily_loss_limit == DecimalPct(av, lim.max_daily_loss_pct)
        max_trade_risk == DecimalPct(av, lim.max_single_trade_risk_pct)
    IN
    IF pnl < -daily_loss_limit
    THEN <<FALSE, DailyLossReason>>
    ELSE IF portfolio_risk_pct(av, positions) >= lim.max_portfolio_risk_pct
    THEN <<FALSE, PortfolioRiskReason>>
    ELSE IF order.quantity > lim.max_position_size
    THEN <<FALSE, PositionSizeReason(order.quantity)>>
    ELSE IF ~IsNone(order.limit_price)
            /\ Val(order.limit_price) * order.quantity * 100 > max_trade_risk
    THEN <<FALSE, TradeRiskReason(Val(order.limit_price) * order.quantity * 100,
                                  max_trade_risk)>>
    ELSE concentration_check(av, lim, positions, order)

\* can_take_trade locking out at the daily loss limit itself
can_take_trade_LossInclusive(av, lim, pnl, positions, order) ==
    LET daily_loss_limit == DecimalPct(av, lim.max_daily_loss_pct) IN
    IF pnl <= -daily_loss_limit
    THEN <<FALSE, DailyLossReason>>
    ELSE IF portfolio_risk_pct(av, positions) >= lim.max_portfolio_risk_pct
    THEN <<FALSE, PortfolioRiskReason>>
    ELSE trade_checks(av, lim, positions, order)

\* RiskManager.can_take_trade: <<can_trade, reason>>
can_take_trade(av, lim, pnl, positions, order) ==
    LET daily_loss_limit == DecimalPct(av, lim.max_daily_loss_pct) IN
    IF pnl < -daily_loss_limit
    THEN <<FALSE, DailyLossReason>>
    ELSE IF portfolio_risk_pct(av, positions) >= lim.max_portfolio_risk_pct
    THEN <<FALSE, PortfolioRiskReason>>
    ELSE trade_checks(av, lim, positions, order)

\* `position in self.open_positions`: identity or ==, and == covers identity
InLedger(positions, p) == \E i \in 1..Len(positions) : PositionEq(positions[i], p)

RemoveAt(positions, i) ==
    SubSeq(positions, 1, i - 1) \o SubSeq(positions, i + 1, Len(positions))

\* list.remove(p): drops the first element that is p or == p
list_remove(positions, p) ==
    RemoveAt(positions, CHOOSE i \in 1..Len(positions) :
                /\ PositionEq(positions[i], p)
                /\ \A j \in 1..(i - 1) : ~PositionEq(positions[j], p))

\* removal of the object p itself, compared by identity
remove_position_ByIdentity(positions, p) ==
    IF \E i \in 1..Len(positions) : positions[i] = p
    THEN RemoveAt(positions, CHOOSE i \in 1..Len(positions) :
                     /\ positions[i] = p
                     /\ \A j \in 1..(i - 1) : positions[j] # p)
    ELSE positions

\* RiskManager.remove_position: the ledger after the call
remove_position(positions, p) ==
    IF InLedger(positions, p) THEN list_remove(positions, p) ELSE positions

\* ------------------------------------------------------------------ bounds

MaxPositions == 2      \* ledger length explored
MaxAbsPnl == 400       \* |daily_pnl| explored

Underlyings == {"SPY", "QQQ"}
OrderSides == {"buy", "sell"}
PnlDeltas == {-200, 200}

RiskContract(u) == OptionContract(u, "call", 475, Today, None, None, None, None)

\* the Position objects of a run: two distinct objects for every field value
PositionObjects ==
    [oid : {1, 2}, contract : {RiskContract(u) : u \in Underlyings},
     quantity : {2}, entry_price : {2}, side : OrderSides]

\* models.py Order (order_id, status and fills are the broker's)
Order(contract, side, quantity, order_type, limit_price) ==
    [contract |-> contract, side |-> side, quantity |-> quantity,
     order_type |-> order_type, limit_price |-> limit_price]

RiskOrders ==
    {Order(RiskContract(u), "buy", q, "limit", Some(lp)) :
        u \in Underlyings, q \in {1, 2}, lp \in {1, 2}}
    \cup {Order(RiskContract(u), "buy", q, "market", None) :
            u \in Underlyings, q \in {1, 2}}

\* risk.py RiskLimits
RiskLimits(pr, ps, dl, st, bp, cc) ==
    [max_portfolio_risk_pct |-> pr, max_position_size |-> ps,
     max_daily_loss_pct |-> dl, max_single_trade_risk_pct |-> st,
     min_buying_power_reserve_pct |-> bp, max_concentration_pct |-> cc]

DefaultLimits == RiskLimits(5, 10, 2, 1, 20, 25)

\* the managers explored: <<account_value, limits>>
RiskConfigs ==
    {<<2000, RiskLimits(30, 1, 10, 10, 20, 40)>>,
     <<2000, RiskLimits(20, 1, 20, 40, 20, 25)>>,
     <<0, DefaultLimits>>}

NoCall == [op |-> "none"]
NoObject == [class |-> "none"]

\* ---------------------------------------------------------------- actions

\* RiskManager.__init__
Init ==
    /\ \E cfg \in RiskConfigs : account_value = cfg[1] /\ limits = cfg[2]
    /\ daily_pnl = 0
    /\ open_positions = <<>>
    /\ strategy = NoObject /\ sizer = NoObject /\ broker = NoObject /\ threads = <<>>
    /\ call = NoCall

\* can_take_trade booking the order it approves into the ledger
CanTakeTrade_Booking(order) ==
    LET ret == can_take_trade(account_value, limits, daily_pnl, open_positions, order)
        booked == [oid |-> 1, contract |-> order.contract,
                   quantity |-> order.quantity,
                   entry_price |-> Val(order.limit_price), side |-> order.side]
    IN /\ call' = [op |-> "can_take_trade", arg |-> order, ret |-> ret]
       /\ open_positions' =
             IF ret[1] /\ ~IsNone(order.limit_price)
                /\ Len(open_positions) < MaxPositions
             THEN Append(open_positions, booked) ELSE open_positions
       /\ UNCHANGED <<account_value, limits, daily_pnl, strategy, sizer, broker, threads>>

CanTakeTrade(order) ==
    /\ call' = [op |-> "can_take_trade", arg |-> order,
                ret |-> can_take_trade(account_value, limits, daily_pnl,
                                       open_positions, order)]
    /\ UNCHANGED <<account_value, limits, daily_pnl, open_positions, strategy, sizer, broker, threads>>

\* update_daily_pnl with the accumulator clamped at zero from below
UpdateDailyPnl_Clamped(pnl) ==
    /\ daily_pnl + pnl \in -MaxAbsPnl..MaxAbsPnl
    /\ daily_pnl' = Max2(0, daily_pnl + pnl)
    /\ call' = [op |-> "update_daily_pnl", arg |-> pnl]
    /\ UNCHANGED <<account_value, limits, open_positions, strategy, sizer, broker, threads>>

UpdateDailyPnl(pnl) ==
    /\ daily_pnl + pnl \in -MaxAbsPnl..MaxAbsPnl
    /\ daily_pnl' = daily_pnl + pnl
    /\ call' = [op |-> "update_daily_pnl", arg |-> pnl]
    /\ UNCHANGED <<account_value, limits, open_positions, strategy, sizer, broker, threads>>

ResetDailyPnl ==
    /\ daily_pnl' = 0
    /\ call' = [op |-> "reset_daily_pnl"]
    /\ UNCHANGED <<account_value, limits, open_positions, strategy, sizer, broker, threads>>

AddPosition(p) ==
    /\ Len(open_positions) < MaxPositions
    /\ open_positions' = Append(open_positions, p)
    /\ call' = [op |-> "add_position", arg |-> p]
    /\ UNCHANGED <<account_value, limits, daily_pnl, strategy, sizer, broker, threads>>

RemovePosition(p) ==
    /\ open_positions' = remove_position(open_positions, p)
    /\ call' = [op |-> "remove_position", arg |-> p]
    /\ UNCHANGED <<account_value, limits, daily_pnl, strategy, sizer, broker, threads>>

\* RiskManager.get_risk_summary: reads only
get_risk_summary(av, lim, pnl, positions) ==
    [account_value |-> av,
     portfolio_risk |-> portfolio_risk(positions),
     portfolio_risk_pct |-> portfolio_risk_pct(av, positions),
     daily_pnl |-> pnl,
     available_risk_budget |-> available_risk_budget(av, lim, positions),
     max_possible_loss |-> calculate_max_loss(positions),
     open_positions_count |-> Len(positions)]

GetRiskSummary ==
    /\ call' = [op |-> "get_risk_summary",
                ret |-> get_risk_summary(account_value, limits, daily_pnl,
                                         open_positions)]
    /\ UNCHANGED <<account_value, limits, daily_pnl, open_positions, strategy, sizer, broker, threads>>

Next ==
    \/ \E order \in RiskOrders : CanTakeTrade(order)
    \/ \E pnl \in PnlDeltas : UpdateDailyPnl(pnl)
    \/ ResetDailyPnl
    \/ \E p \in PositionObjects : AddPosition(p)
    \/ \E p \in PositionObjects : RemovePosition(p)
    \/ GetRiskSummary

Spec == Init /\ [][Next]_vars

\* ------------------------------------------- the ledger fed by approvals

\* models.py Position (entry_time apart, which no check reads); oid tells
\* one object from another
Position(oid, contract, quantity, entry_price, side) ==
    [oid |-> oid, contract |-> contract, quantity |-> quantity,
     entry_price |-> entry_price, side |-> side]

\* the managers whose ledger holds approved fills only: a tight portfolio
\* limit, a tight concentration limit, and an account without value
FillConfigs ==
    {<<2000, RiskLimits(15, 2, 10, 20, 20, 40)>>,
     <<2000, RiskLimits(100, 2, 10, 20, 20, 25)>>,
     <<0, DefaultLimits>>}

FillOrders ==
    {Order(RiskContract(u), sd, q, "limit", Some(lp)) :
        u \in Underlyings, sd \in OrderSides, q \in {1, 2}, lp \in {1, 2}}
    \cup {Order(RiskContract(u), "buy", 1, "market", None) : u \in Underlyings}

InitFills ==
    /\ \E cfg \in FillConfigs : account_value = cfg[1] /\ limits = cfg[2]
    /\ daily_pnl = 0
    /\ open_positions = <<>>
    /\ strategy = NoObject /\ sizer = NoObject /\ broker = NoObject /\ threads = <<>>
    /\ call = NoCall

\* a Position object that the ledger does not hold yet
FreshOid == CHOOSE n \in 1..(Len(open_positions) + 1) :
                \A i \in 1..Len(open_positions) : open_positions[i].oid # n

\* the caller's step after an approval: the limit order just approved is
\* filled in full at its limit price and the position is added
Fill ==
    /\ call.op = "can_take_trade" /\ call.ret[1] = TRUE
    /\ call.arg.order_type = "limit" /\ ~IsNone(call.arg.limit_price)
    /\ AddPosition(Position(FreshOid, call.arg.contract, call.arg.quantity,
                            Val(call.arg.limit_price), call.arg.side))

NextFills ==
    \/ \E order \in FillOrders : CanTakeTrade(order)
    \/ Fill
    \/ \E i \in 1..Len(open_positions) : RemovePosition(open_positions[i])

SpecFills == InitFills /\ [][NextFills]_vars

\* ------------------------------------------------------- strategy engine

\* strategies.py ALPACA_0DTE_CUTOFF = time(15, 15), in seconds of the day
ALPACA_0DTE_CUTOFF == 54900

\* what a call does: return a value or raise an exception
Return(v) == [kind |-> "return", value |-> v]
Raise(e) == [kind |-> "raise", error |-> e]

\* datetime: a date and a time of day (seconds)
DateTime(d, t) == [date |-> d, time |-> t]

\* strategies.py StrategySignal
StrategySignal(strategy_type, contracts, sides, quantities, confidence, reason, timestamp) ==
    [strategy_type |-> strategy_type, contracts |-> contracts, sides |-> sides,
     quantities |-> quantities, confidence |-> confidence, reason |-> reason,
     timestamp |-> timestamp]

\* StrategySignal.validate; the chained comparison a != b != c is
\* (a != b) and (b != c)
signal_validate(signal) ==
    IF Len(signal.contracts) = 0 THEN FALSE
    ELSE IF /\ Len(signal.contracts) # Len(signal.sides)
            /\ Len(signal.sides) # Len(signal.quantities) THEN FALSE
    ELSE IF ~(0 <= signal.confidence /\ signal.confidence <= 100) THEN FALSE
    ELSE TRUE

\* LongCallStrategy.__init__ (with BaseStrategy.__init__)
LongCallStrategy(target_delta, max_premium_pct, max_position_size, respect_cutoff) ==
    [class |-> "LongCallStrategy", target_delta |-> target_delta,
     max_premium_pct |-> max_premium_pct, max_position_size |-> max_position_size,
     min_confidence |-> 60, respect_cutoff |-> respect_cutoff]

\* LongPutStrategy.__init__
LongPutStrategy(target_delta, max_premium_pct, max_position_size, respect_cutoff) ==
    [class |-> "LongPutStrategy", target_delta |-> target_delta,
     max_premium_pct |-> max_premium_pct, max_position_size |-> max_position_size,
     min_confidence |-> 60, respect_cutoff |-> respect_cutoff]

\* StraddleStrategy.__init__
StraddleStrategy(max_total_premium_pct, max_position_size, respect_cutoff) ==
    [class |-> "StraddleStrategy", max_total_premium_pct |-> max_total_premium_pct,
     max_position_size |-> max_position_size,
     min_confidence |-> 60, respect_cutoff |-> respect_cutoff]

\* StrangleStrategy.__init__
StrangleStrategy(call_delta, put_delta, max_position_size, respect_cutoff) ==
    [class |-> "StrangleStrategy", call_delta |-> call_delta, put_delta |-> put_delta,
     max_position_size |-> max_position_size,
     min_confidence |-> 60, respect_cutoff |-> respect_cutoff]

\* the strategy_type property of each class
strategy_type(s) ==
    CASE s.class = "LongCallStrategy" -> "long_call"
      [] s.class = "LongPutStrategy" -> "long_put"
      [] s.class = "StraddleStrategy" -> "straddle"
      [] s.class = "StrangleStrategy" -> "strangle"

\* the gate with the cutoff instant itself still inside trading hours
is_within_trading_hours_Inclusive(s, current_time, now) ==
    LET check_time == IF IsNone(current_time) THEN now ELSE Val(current_time)
    IN IF s.respect_cutoff THEN check_time.time <= ALPACA_0DTE_CUTOFF ELSE TRUE

\* BaseStrategy.is_within_trading_hours; now is what datetime.now() returns
is_within_trading_hours(s, current_time, now) ==
    LET check_time == IF IsNone(current_time) THEN now ELSE Val(current_time)
    IN IF s.respect_cutoff THEN check_time.time < ALPACA_0DTE_CUTOFF ELSE TRUE

\* BaseStrategy.filter_0dte_contracts
filter_0dte_contracts(contracts, reference_date) ==
    SelectSeq(contracts, LAMBDA c : is_0dte(c, reference_date))

Min2(a, b) == IF a <= b THEN a ELSE b
Abs(x) == IF x < 0 THEN -x ELSE x

\* zip(contracts, sides, quantities) stops at the shortest sequence
ZipLen(signal) ==
    Min2(Len(signal.contracts), Min2(Len(signal.sides), Len(signal.quantities)))

\* create_orders passing the requested quantities through uncapped
create_orders_Uncapped(s, signal) ==
    IF ~signal_validate(signal) THEN Raise("ValueError: Invalid signal")
    ELSE Return([i \in 1..ZipLen(signal) |->
                    Order(signal.contracts[i], signal.sides[i],
                          signal.quantities[i],
                          "limit", mid_price(signal.contracts[i]))])

\* BaseStrategy.create_orders
create_orders(s, signal) ==
    IF ~signal_validate(signal) THEN Raise("ValueError: Invalid signal")
    ELSE Return([i \in 1..ZipLen(signal) |->
                    Order(signal.contracts[i], signal.sides[i],
                          Min2(signal.quantities[i], s.max_position_size),
                          "limit", mid_price(signal.contracts[i]))])

OfType(contracts, t) == SelectSeq(contracts, LAMBDA c : c.option_type = t)

\* the loop `for contract in calls: if contract.delta is not None: ...`:
\* best is the Optional best_contract, diff the best_delta_diff (None: inf)
RECURSIVE best_by_delta(_, _, _, _, _)
best_by_delta(contracts, target_delta, i, best, diff) ==
    IF i > Len(contracts) THEN best
    ELSE LET c == contracts[i] IN
         IF ~IsNone(c.delta)
            /\ (IsNone(diff) \/ Abs(Val(c.delta) - target_delta) < Val(diff))
         THEN best_by_delta(contracts, target_delta, i + 1, Some(c),
                            Some(Abs(Val(c.delta) - target_delta)))
         ELSE best_by_delta(contracts, target_delta, i + 1, best, diff)

\* sorted(contracts, key=lambda c: abs(c.strike - underlying_price))[0]:
\* the sort is stable, so this is the first element with the least key
closest_strike(contracts, underlying_price) ==
    LET key(i) == Abs(contracts[i].strike - underlying_price)
        k == CHOOSE i \in 1..Len(contracts) :
                /\ \A j \in 1..Len(contracts) : key(i) <= key(j)
                /\ \A j \in 1..(i - 1) : key(j) > key(i)
    IN contracts[k]

\* the selection by strike distance alone, whatever deltas the candidates carry
select_contract_StrikeOnly(candidates, target_delta, underlying_price) ==
    closest_strike(candidates, underlying_price)

\* the selection shared by LongCallStrategy and LongPutStrategy
select_contract(candidates, target_delta, underlying_price) ==
    LET best == best_by_delta(candidates, target_delta, 1, None, None)
    IN IF IsNone(best) THEN closest_strike(candidates, underlying_price)
       ELSE Val(best)

ReasonAt(text, contract) ==
    [text |-> text, underlying |-> contract.underlying, strike |-> contract.strike]

\* the long call without its premium check
long_call_generate_signal_NoCap(s, underlying_price, available_contracts, current_time, now1, now2) ==
    IF ~is_within_trading_hours(s, current_time, now1) THEN Return(None)
    ELSE LET calls == OfType(available_contracts, "call") IN
    IF calls = <<>> THEN Return(None)
    ELSE LET best_contract == select_contract(calls, s.target_delta, underlying_price)
         IN
    Return(Some(StrategySignal(strategy_type(s), <<best_contract>>, <<"buy">>,
                   <<1>>, 70, ReasonAt("Long call on", best_contract),
                   IF IsNone(current_time) THEN now2 ELSE Val(current_time))))

\* LongCallStrategy.generate_signal; now1 and now2 are what the two calls
\* of datetime.now() return when current_time is None
long_call_generate_signal(s, underlying_price, available_contracts, current_time, now1, now2) ==
    IF ~is_within_trading_hours(s, current_time, now1) THEN Return(None)
    ELSE LET calls == OfType(available_contracts, "call") IN
    IF calls = <<>> THEN Return(None)
    ELSE LET best_contract == select_contract(calls, s.target_delta, underlying_price)
             mid == mid_price(best_contract)
             \* `if best_contract.mid_price:` is false for None and for 0
             truthy == ~IsNone(mid) /\ Val(mid) # 0
             \* mid_price / underlying_price * 100 > max_premium_pct
             too_expensive ==
                 IF underlying_price > 0
                 THEN Val(mid) * 100 > s.max_premium_pct * underlying_price
                 ELSE Val(mid) * 100 < s.max_premium_pct * underlying_price
         IN
    \* Decimal / Decimal(0) raises decimal.DivisionByZero
    IF truthy /\ underlying_price = 0 THEN Raise("DivisionByZero")
    ELSE IF truthy /\ too_expensive THEN Return(None)
    ELSE Return(Some(StrategySignal(strategy_type(s), <<best_contract>>, <<"buy">>,
                        <<1>>, 70, ReasonAt("Long call on", best_contract),
                        IF IsNone(current_time) THEN now2 ELSE Val(current_time))))

\* the long put stamping its signal with the clock even when current_time
\* is supplied
long_put_generate_signal_Sampled(s, underlying_price, available_contracts, current_time, now1, now2) ==
    IF ~is_within_trading_hours(s, current_time, now1) THEN Return(None)
    ELSE LET puts == OfType(available_contracts, "put") IN
    IF puts = <<>> THEN Return(None)
    ELSE LET best_contract == select_contract(puts, s.target_delta, underlying_price)
         IN
    Return(Some(StrategySignal(strategy_type(s), <<best_contract>>, <<"buy">>,
                   <<1>>, 70, ReasonAt("Long put on", best_contract), now2)))

\* LongPutStrategy.generate_signal
long_put_generate_signal(s, underlying_price, available_contracts, current_time, now1, now2) ==
    IF ~is_within_trading_hours(s, current_time, now1) THEN Return(None)
    ELSE LET puts == OfType(available_contracts, "put") IN
    IF puts = <<>> THEN Return(None)
    ELSE LET best_contract == select_contract(puts, s.target_delta, underlying_price)
         IN
    Return(Some(StrategySignal(strategy_type(s), <<best_contract>>, <<"buy">>,
                   <<1>>, 70, ReasonAt("Long put on", best_contract),
                   IF IsNone(current_time) THEN now2 ELSE Val(current_time))))

\* iteration order of set(c.strike for c in contracts) in CPython: by hash
\* slot; the strikes of the model fall in distinct slots of the 8-slot table
SetSlot(strike) == strike % 8

\* the strike of the first contract of the chain taken as the ATM strike
find_atm_strike_First(contracts, underlying_price) ==
    IF contracts = <<>> THEN None ELSE Some(contracts[1].strike)

\* StraddleStrategy.find_atm_strike: min(strikes, key=...) returns the first
\* least element in the set's iteration order
find_atm_strike(contracts, underlying_price) ==
    LET strikes == {contracts[i].strike : i \in 1..Len(contracts)}
    IN IF strikes = {} THEN None
       ELSE Some(CHOOSE st \in strikes :
                   /\ \A o \in strikes :
                         Abs(st - underlying_price) <= Abs(o - underlying_price)
                   /\ \A o \in strikes :
                         Abs(o - underlying_price) = Abs(st - underlying_price)
                            => SetSlot(st) <= SetSlot(o))

\* the loop that keeps the last call and the last put at the ATM strike
LastAt(contracts, strike, t) ==
    LET hits == {i \in 1..Len(contracts) :
                    contracts[i].strike = strike /\ contracts[i].option_type = t}
    IN IF hits = {} THEN None
       ELSE Some(contracts[CHOOSE i \in hits : \A j \in hits : j <= i])

\* StraddleStrategy.generate_signal
straddle_generate_signal(s, underlying_price, available_contracts, current_time, now1, now2) ==
    IF ~is_within_trading_hours(s, current_time, now1) THEN Return(None)
    ELSE LET atm_strike == find_atm_strike(available_contracts, underlying_price) IN
    IF IsNone(atm_strike) THEN Return(None)
    ELSE LET atm_call == LastAt(available_contracts, Val(atm_strike), "call")
             atm_put == LastAt(available_contracts, Val(atm_strike), "put")
         IN
    IF IsNone(atm_call) \/ IsNone(atm_put) THEN Return(None)
    ELSE Return(Some(StrategySignal(strategy_type(s), <<Val(atm_call), Val(atm_put)>>,
                        <<"buy", "buy">>, <<1, 1>>, 65,
                        ReasonAt("Straddle on", Val(atm_call)),
                        IF IsNone(current_time) THEN now2 ELSE Val(current_time))))

\* the first contract of the list, whatever its strike
FirstLeastStrike_First(contracts) == contracts[1]

\* min(otm_calls, key=strike) and max(otm_puts, key=strike): the first
\* least, the first greatest
FirstLeastStrike(contracts) ==
    contracts[CHOOSE i \in 1..Len(contracts) :
                 /\ \A j \in 1..Len(contracts) : contracts[i].strike <= contracts[j].strike
                 /\ \A j \in 1..(i - 1) : contracts[j].strike > contracts[i].strike]

FirstGreatestStrike(contracts) ==
    contracts[CHOOSE i \in 1..Len(contracts) :
                 /\ \A j \in 1..Len(contracts) : contracts[i].strike >= contracts[j].strike
                 /\ \A j \in 1..(i - 1) : contracts[j].strike < contracts[i].strike]

\* StrangleStrategy.generate_signal
strangle_generate_signal(s, underlying_price, available_contracts, current_time, now1, now2) ==
    IF ~is_within_trading_hours(s, current_time, now1) THEN Return(None)
    ELSE LET calls == OfType(available_contracts, "call")
             puts == OfType(available_contracts, "put")
         IN
    IF calls = <<>> \/ puts = <<>> THEN Return(None)
    ELSE LET otm_calls == SelectSeq(calls, LAMBDA c : c.strike > underlying_price)
             otm_puts == SelectSeq(puts, LAMBDA c : c.strike < underlying_price)
         IN
    IF otm_calls = <<>> \/ otm_puts = <<>> THEN Return(None)
    ELSE LET selected_call == FirstLeastStrike(otm_calls)
             selected_put == FirstGreatestStrike(otm_puts)
         IN
    Return(Some(StrategySignal(strategy_type(s), <<selected_call, selected_put>>,
                   <<"buy", "buy">>, <<1, 1>>, 60,
                   [text |-> "Strangle", call |-> selected_call.strike,
                    put |-> selected_put.strike],
                   IF IsNone(current_time) THEN now2 ELSE Val(current_time))))

\* generate_signal of the strategy's class
generate_signal(s, underlying_price, available_contracts, current_time, now1, now2) ==
    CASE s.class = "LongCallStrategy" ->
            long_call_generate_signal(s, underlying_price, available_contracts,
                                      current_time, now1, now2)
      [] s.class = "LongPutStrategy" ->
            long_put_generate_signal(s, underlying_price, available_contracts,
                                     current_time, now1, now2)
      [] s.class = "StraddleStrategy" ->
            straddle_generate_signal(s, underlying_price, available_contracts,
                                     current_time, now1, now2)
      [] s.class = "StrangleStrategy" ->
            strangle_generate_signal(s, underlying_price, available_contracts,
                                     current_time, now1, now2)

\* ------------------------------------------------- strategy engine: bounds

MaxChain == 2      \* contracts in an option chain
MaxLegs == 2       \* length of each sequence of a hand-built signal

\* the strategies explored: each class with its default configuration
Strategies ==
    {LongCallStrategy(50, 2, 10, TRUE),
     LongPutStrategy(-50, 2, 10, TRUE),
     StraddleStrategy(4, 10, TRUE),
     StrangleStrategy(30, -30, 10, TRUE)}

\* the contracts of a chain snapshot: calls and puts at two strikes, expiring
\* today or tomorrow, quoted (bid 2, ask 4) or unquoted, with or without delta
ChainContracts ==
    {OptionContract("SPY", t, st, ex, q[1], q[2], None, d) :
        t \in {"call", "put"}, st \in {470, 480}, ex \in {Today, Tomorrow},
        q \in {<<None, None>>, <<Some(2), Some(4)>>},
        d \in {None, Some(50)}}

SeqsUpTo(S, n) == UNION {[1..k -> S] : k \in 0..n}

UnderlyingPrices == {0, 475}
TimesOfDay == {ALPACA_0DTE_CUTOFF - 1, ALPACA_0DTE_CUTOFF}
Clock == {DateTime(Today, t) : t \in TimesOfDay}
CurrentTimes == {None} \cup {Some(DateTime(Today, t)) : t \in {ALPACA_0DTE_CUTOFF - 1}}

\* hand-built signals, for create_orders
SignalContracts ==
    {OptionContract("SPY", "call", 470, Today, Some(2), Some(4), None, Some(50)),
     OptionContract("SPY", "put", 480, Today, None, None, None, None)}

BuiltSignals ==
    {StrategySignal("long_call", cs, sd, qs, cf, [text |-> "built"],
                    DateTime(Today, ALPACA_0DTE_CUTOFF - 1)) :
        cs \in SeqsUpTo(SignalContracts, MaxLegs),
        sd \in SeqsUpTo(OrderSides, MaxLegs),
        qs \in SeqsUpTo({1, 20}, MaxLegs),
        cf \in {-10, 0, 70, 100, 110}}

\* ------------------------------------------------ strategy engine: actions

\* a strategy object and one call about to be made on it
InitStrategy ==
    /\ account_value = 0 /\ limits = DefaultLimits /\ daily_pnl = 0
    /\ open_positions = <<>>
    /\ strategy \in Strategies
    /\ sizer = NoObject /\ broker = NoObject /\ threads = <<>>
    /\ \/ \E up \in UnderlyingPrices, ch \in SeqsUpTo(ChainContracts, MaxChain),
            ct \in CurrentTimes :
            call = [op |-> "generate_signal", state |-> "pending",
                    underlying_price |-> up, available_contracts |-> ch,
                    current_time |-> ct]
       \/ \E sig \in BuiltSignals :
            call = [op |-> "create_orders", state |-> "pending", signal |-> sig]

\* generate_signal; gate is what is_within_trading_hours returned in its
\* first statement
GenerateSignal ==
    /\ call.op = "generate_signal" /\ call.state = "pending"
    /\ \E now1, now2 \in Clock :
          /\ now1.time <= now2.time
          /\ call' = [call EXCEPT !.state = "done"] @@
                     [gate |-> is_within_trading_hours(strategy, call.current_time, now1),
                      ret |-> generate_signal(strategy, call.underlying_price,
                                              call.available_contracts,
                                              call.current_time, now1, now2)]
    /\ UNCHANGED <<account_value, limits, daily_pnl, open_positions, strategy, sizer, broker, threads>>

\* the caller passes the chain through filter_0dte_contracts (reference_date
\* None: date.today()) before it calls generate_signal
Filter0dteContracts ==
    /\ call.op = "generate_signal" /\ call.state = "pending"
    /\ call' = [call EXCEPT !.available_contracts = filter_0dte_contracts(@, Today)]
    /\ UNCHANGED <<account_value, limits, daily_pnl, open_positions, strategy, sizer, broker, threads>>

\* create_orders on a hand-built signal
CreateOrders ==
    /\ call.op = "create_orders" /\ call.state = "pending"
    /\ call' = [call EXCEPT !.state = "done"] @@
               [ret |-> create_orders(strategy, call.signal)]
    /\ UNCHANGED <<account_value, limits, daily_pnl, open_positions, strategy, sizer, broker, threads>>

\* create_orders on the signal generate_signal has just returned
CreateOrdersOfSignal ==
    /\ call.op = "generate_signal" /\ call.state = "done"
    /\ call.ret.kind = "return" /\ ~IsNone(call.ret.value)
    /\ call' = [op |-> "create_orders", state |-> "done",
                signal |-> Val(call.ret.value),
                ret |-> create_orders(strategy, Val(call.ret.value))]
    /\ UNCHANGED <<account_value, limits, daily_pnl, open_positions, strategy, sizer, broker, threads>>

NextStrategy ==
    Filter0dteContracts \/ GenerateSignal \/ CreateOrders \/ CreateOrdersOfSignal

SpecStrategy == InitStrategy /\ [][NextStrategy]_vars

\* ------------------------------------------------ the trading-hours gate

\* every strategy class with cutoff enforcement on and off
GateStrategies ==
    {LongCallStrategy(50, 2, 10, rc) : rc \in BOOLEAN}
    \cup {LongPutStrategy(-50, 2, 10, rc) : rc \in BOOLEAN}
    \cup {StraddleStrategy(4, 10, rc) : rc \in BOOLEAN}
    \cup {StrangleStrategy(30, -30, 10, rc) : rc \in BOOLEAN}

\* current_time: not supplied, midnight, 15:14:59, 15:15:00, 15:15:01
GateTimes ==
    {None} \cup {Some(DateTime(Today, t)) :
                    t \in {0, ALPACA_0DTE_CUTOFF - 1, ALPACA_0DTE_CUTOFF,
                           ALPACA_0DTE_CUTOFF + 1}}

GateContracts ==
    {OptionContract("SPY", t, st, Today, Some(2), Some(4), None, Some(50)) :
        t \in {"call", "put"}, st \in {470, 480}}

InitGate ==
    /\ account_value = 0 /\ limits = DefaultLimits /\ daily_pnl = 0
    /\ open_positions = <<>>
    /\ strategy \in GateStrategies
    /\ sizer = NoObject /\ broker = NoObject /\ threads = <<>>
    /\ \/ \E ch \in SeqsUpTo(GateContracts, MaxChain), ct \in GateTimes :
            call = [op |-> "generate_signal", state |-> "pending",
                    underlying_price |-> 475, available_contracts |-> ch,
                    current_time |-> ct]
       \/ \E ct \in GateTimes :
            call = [op |-> "is_within_trading_hours", state |-> "pending",
                    current_time |-> ct]

\* is_within_trading_hours; now is the clock reading it takes when
\* current_time is None
IsWithinTradingHours ==
    /\ call.op = "is_within_trading_hours" /\ call.state = "pending"
    /\ \E now \in Clock :
          call' = [call EXCEPT !.state = "done"] @@
                  [now |-> now,
                   ret |-> is_within_trading_hours(strategy, call.current_time, now)]
    /\ UNCHANGED <<account_value, limits, daily_pnl, open_positions, strategy, sizer, broker, threads>>

NextGate == IsWithinTradingHours \/ GenerateSignal

SpecGate == InitGate /\ [][NextGate]_vars

\* ------------------------------------- single-leg selection: long call, long put

MaxCandidates == 2    \* contracts in a chain offered to a single-leg strategy

SelectStrategies ==
    {LongCallStrategy(50, 2, 10, TRUE), LongPutStrategy(-50, 2, 10, TRUE)}

\* calls and puts at two strikes; delta absent, 0.50 or -0.40 (the float
\* differences from the targets 0.50 and -0.50 are 0, 0.9, 1.0 and
\* 0.09999999999999998: ordered as the exact ones); unquoted, mid 3 or mid 11
SelectContracts ==
    {OptionContract("SPY", t, st, Today, q[1], q[2], None, d) :
        t \in {"call", "put"}, st \in {470, 480},
        d \in {None, Some(50), Some(-40)},
        q \in {<<None, None>>, <<Some(2), Some(4)>>, <<Some(10), Some(12)>>}}

SelectPrices == {475, 478}

InitSelect ==
    /\ account_value = 0 /\ limits = DefaultLimits /\ daily_pnl = 0
    /\ open_positions = <<>>
    /\ strategy \in SelectStrategies
    /\ sizer = NoObject /\ broker = NoObject /\ threads = <<>>
    /\ \E up \in SelectPrices, ch \in SeqsUpTo(SelectContracts, MaxCandidates) :
          call = [op |-> "generate_signal", state |-> "pending",
                  underlying_price |-> up, available_contracts |-> ch,
                  current_time |-> Some(DateTime(Today, ALPACA_0DTE_CUTOFF - 1))]

NextSelect == GenerateSignal

SpecSelect == InitSelect /\ [][NextSelect]_vars

\* --------------------------------------- two-leg selection: straddle, strangle

MaxLegChain == 3    \* contracts in a chain offered to a two-leg strategy

LegStrategies ==
    {StraddleStrategy(4, 10, TRUE),
     StrangleStrategy(30, -30, 10, TRUE), StrangleStrategy(50, -50, 10, TRUE)}

\* calls and puts at three strikes, with delta 0.30 or -0.30
LegContracts ==
    {OptionContract("SPY", t, st, Today, Some(2), Some(4), None, d) :
        t \in {"call", "put"}, st \in {470, 475, 480}, d \in {Some(30), Some(-30)}}

LegPrices == {472, 475, 478}

InitLegs ==
    /\ account_value = 0 /\ limits = DefaultLimits /\ daily_pnl = 0
    /\ open_positions = <<>>
    /\ strategy \in LegStrategies
    /\ sizer = NoObject /\ broker = NoObject /\ threads = <<>>
    /\ \E up \in LegPrices, ch \in SeqsUpTo(LegContracts, MaxLegChain) :
          call = [op |-> "generate_signal", state |-> "pending",
                  underlying_price |-> up, available_contracts |-> ch,
                  current_time |-> Some(DateTime(Today, ALPACA_0DTE_CUTOFF - 1))]

NextLegs == GenerateSignal

SpecLegs == InitLegs /\ [][NextLegs]_vars

\* ------------------------------------------ generate_signal called twice

\* calls and puts at two strikes equidistant from the price, with and
\* without delta
TwiceContracts ==
    {OptionContract("SPY", t, st, Today, Some(2), Some(4), None, d) :
        t \in {"call", "put"}, st \in {470, 480}, d \in {None, Some(50)}}

InitTwice ==
    /\ account_value = 0 /\ limits = DefaultLimits /\ daily_pnl = 0
    /\ open_positions = <<>>
    /\ strategy \in GateStrategies
    /\ sizer = NoObject /\ broker = NoObject /\ threads = <<>>
    /\ \E ch \in SeqsUpTo(TwiceContracts, MaxChain), ct \in CurrentTimes :
          call = [op |-> "generate_signal", state |-> "pending",
                  underlying_price |-> 475, available_contracts |-> ch,
                  current_time |-> ct]

\* create_orders on the signal of the first call, between the two calls
CreateOrdersBetween ==
    /\ call.op = "generate_signal" /\ call.state = "done"
    /\ "orders" \notin DOMAIN call
    /\ call.ret.kind = "return" /\ ~IsNone(call.ret.value)
    /\ call' = call @@ [orders |-> create_orders(strategy, Val(call.ret.value))]
    /\ UNCHANGED <<account_value, limits, daily_pnl, open_positions, strategy, sizer, broker, threads>>

\* generate_signal called again on the same strategy with the same three
\* arguments; the clock is read anew
GenerateSignalAgain ==
    /\ call.op = "generate_signal" /\ call.state = "done"
    /\ \E now1, now2 \in Clock :
          /\ now1.time <= now2.time
          /\ call' = [call EXCEPT !.state = "twice"] @@
                     [again_gate |-> is_within_trading_hours(strategy, call.current_time, now1),
                      again |-> generate_signal(strategy, call.underlying_price,
                                                call.available_contracts,
                                                call.current_time, now1, now2)]
    /\ UNCHANGED <<account_value, limits, daily_pnl, open_positions, strategy, sizer, broker, threads>>

NextTwice == GenerateSignal \/ CreateOrdersBetween \/ GenerateSignalAgain

SpecTwice == InitTwice /\ [][NextTwice]_vars

\* ------------------------------------------------- OptionContract.validate

\* OptionContract.validate, on a contract that carries its symbol
contract_validate(c) ==
    IF c.symbol = "" \/ c.underlying = "" THEN FALSE
    ELSE IF c.strike <= 0 THEN FALSE
    ELSE IF ~IsNone(c.bid) /\ ~IsNone(c.ask)
         THEN IF Val(c.bid) < 0 \/ Val(c.ask) < 0 THEN FALSE
              ELSE IF Val(c.bid) > Val(c.ask) THEN FALSE
              ELSE TRUE
    ELSE TRUE

\* contracts as a broker or a caller may construct them, sensible or not
ValidatedContracts ==
    {OptionContract(u, "call", st, Today, b, a, None, None) @@ [symbol |-> sy] :
        sy \in {"", "SPY240315C00475000"}, u \in {"", "SPY"},
        st \in {-10, 0, 475},
        b \in {None, Some(-1), Some(2), Some(5)},
        a \in {None, Some(-1), Some(4)}}

InitContract ==
    /\ account_value = 0 /\ limits = DefaultLimits /\ daily_pnl = 0
    /\ open_positions = <<>>
    /\ strategy = NoObject /\ sizer = NoObject /\ broker = NoObject /\ threads = <<>>
    /\ \E c \in ValidatedContracts :
          call = [op |-> "validate", state |-> "pending", contract |-> c]

Validate ==
    /\ call.op = "validate" /\ call.state = "pending"
    /\ call' = [call EXCEPT !.state = "done"] @@
               [ret |-> contract_validate(call.contract)]
    /\ UNCHANGED <<account_value, limits, daily_pnl, open_positions, strategy, sizer, broker, threads>>

NextContract == Validate

SpecContract == InitContract /\ [][NextContract]_vars

\* ------------------------------------------------------------ Order.validate

\* validation asking for a price only of limit orders, and looking at the
\* price of no other order
order_validate_LimitOnly(o) ==
    IF o.quantity <= 0 THEN FALSE
    ELSE IF o.order_type = "limit"
         THEN ~IsNone(o.limit_price) /\ Val(o.limit_price) > 0
    ELSE TRUE

\* Order.validate
order_validate(o) ==
    IF o.quantity <= 0 THEN FALSE
    ELSE IF o.order_type = "limit" /\ IsNone(o.limit_price) THEN FALSE
    ELSE IF ~IsNone(o.limit_price) /\ Val(o.limit_price) <= 0 THEN FALSE
    ELSE TRUE

\* orders as a caller may construct them, sensible or not
ValidatedOrders ==
    {Order(RiskContract("SPY"), sd, q, k, lp) :
        sd \in OrderSides, q \in {-1, 0, 1, 5},
        k \in {"limit", "market", "stop"},
        lp \in {None, Some(-1), Some(0), Some(3)}}

InitOrder ==
    /\ account_value = 0 /\ limits = DefaultLimits /\ daily_pnl = 0
    /\ open_positions = <<>>
    /\ strategy = NoObject /\ sizer = NoObject /\ broker = NoObject /\ threads = <<>>
    /\ \E o \in ValidatedOrders :
          call = [op |-> "validate_order", state |-> "pending", order |-> o]

ValidateOrder ==
    /\ call.op = "validate_order" /\ call.state = "pending"
    /\ call' = [call EXCEPT !.state = "done"] @@
               [ret |-> order_validate(call.order)]
    /\ UNCHANGED <<account_value, limits, daily_pnl, open_positions, strategy, sizer, broker, threads>>

NextOrder == ValidateOrder

SpecOrder == InitOrder /\ [][NextOrder]_vars

\* ------------------------------------------------------------ AlpacaBroker

\* broker.py BrokerConfig (the URLs keep their defaults)
BrokerConfig(api_key, api_secret) == [api_key |-> api_key, api_secret |-> api_secret]

\* BrokerConfig.from_env; env is os.environ
from_env(env) ==
    IF env.ALPACA_API_KEY = "" \/ env.ALPACA_API_SECRET = ""
    THEN Raise("ValueError: ALPACA_API_KEY and ALPACA_API_SECRET must be set")
    ELSE Return(BrokerConfig(env.ALPACA_API_KEY, env.ALPACA_API_SECRET))

\* AlpacaBroker.__init__
AlpacaBroker(config) ==
    [class |-> "AlpacaBroker", config |-> config, connected |-> FALSE, account |-> None]

\* the AccountInfo that get_account builds
MockAccount ==
    [account_id |-> "test-account", buying_power |-> 100000, cash |-> 100000,
     portfolio_value |-> 100000, equity |-> 100000, pattern_day_trader |-> FALSE,
     trading_blocked |-> FALSE, options_approved |-> TRUE, options_level |-> 2]

\* a method's effect: the broker after the call and what the call returns
Effect(b, ret) == [broker |-> b, ret |-> ret]

\* AlpacaBroker.is_connected
is_connected(b) == b.connected

\* AlpacaBroker.connect
connect(b, env) ==
    IF IsNone(b.config) /\ from_env(env).kind = "raise" THEN Effect(b, FALSE)
    ELSE LET config == IF IsNone(b.config) THEN Some(from_env(env).value) ELSE b.config
         IN Effect([b EXCEPT !.config = config, !.connected = TRUE], TRUE)

\* disconnect leaving the cached account in place
disconnect_KeepAccount(b) == Effect([b EXCEPT !.connected = FALSE], None)

\* AlpacaBroker.disconnect
disconnect(b) == Effect([b EXCEPT !.connected = FALSE, !.account = None], None)

\* AlpacaBroker.get_account
get_account(b) ==
    IF ~b.connected THEN Effect(b, None)
    ELSE LET account == IF IsNone(b.account) THEN Some(MockAccount) ELSE b.account
         IN Effect([b EXCEPT !.account = account], account)

\* AlpacaBroker.get_option_chain
get_option_chain(b, underlying, expiration) ==
    IF ~b.connected THEN Effect(b, <<>>) ELSE Effect(b, <<>>)

\* submit_order without the test of the quantity
submit_order_AnyQuantity(b, symbol, qty, side, order_type, limit_price, now) ==
    IF ~b.connected THEN Effect(b, None)
    ELSE IF order_type = "limit" /\ IsNone(limit_price) THEN Effect(b, None)
    ELSE IF side \notin {"buy", "sell"} THEN Effect(b, None)
    ELSE Effect(b, Some([prefix |-> "order-", timestamp |-> now]))

\* AlpacaBroker.submit_order; now is what datetime.now() returns
submit_order(b, symbol, qty, side, order_type, limit_price, now) ==
    IF ~b.connected THEN Effect(b, None)
    ELSE IF order_type = "limit" /\ IsNone(limit_price) THEN Effect(b, None)
    ELSE IF qty <= 0 THEN Effect(b, None)
    ELSE IF side \notin {"buy", "sell"} THEN Effect(b, None)
    ELSE Effect(b, Some([prefix |-> "order-", timestamp |-> now]))

\* AlpacaBroker.cancel_order
cancel_order(b, order_id) == IF ~b.connected THEN Effect(b, FALSE) ELSE Effect(b, TRUE)

\* AlpacaBroker.get_order_status
get_order_status(b, order_id) ==
    IF ~b.connected THEN Effect(b, None)
    ELSE Effect(b, Some([order_id |-> order_id, status |-> "new", filled_qty |-> 0]))

\* AlpacaBroker.get_positions
get_positions(b) == IF ~b.connected THEN Effect(b, <<>>) ELSE Effect(b, <<>>)

\* os.environ at the time of a connect: without credentials, with the key
\* alone, with both
Environments ==
    {[ALPACA_API_KEY |-> k, ALPACA_API_SECRET |-> sc] :
        k \in {"", "env-key"}, sc \in {"", "env-secret"}}

SubmittedQuantities == {-1, 0, 1}
SubmittedSides == {"buy", "sell", "hold"}
SubmittedKinds == {"limit", "market"}
SubmittedPrices == {None, Some(2)}
OrderIds == {"order-1"}

\* a broker built without a config, or with one
InitBroker ==
    /\ account_value = 0 /\ limits = DefaultLimits /\ daily_pnl = 0
    /\ open_positions = <<>>
    /\ strategy = NoObject /\ sizer = NoObject /\ threads = <<>>
    /\ broker \in {AlpacaBroker(None),
                    AlpacaBroker(Some(BrokerConfig("given-key", "given-secret")))}
    /\ call = NoCall

\* a method call c taking effect: the broker it leaves and the result recorded
BrokerStep(c, effect) ==
    /\ broker' = effect.broker
    /\ call' = c @@ [ret |-> effect.ret]
    /\ UNCHANGED <<account_value, limits, daily_pnl, open_positions, strategy, sizer, threads>>

IsConnected ==
    BrokerStep([op |-> "is_connected"], Effect(broker, is_connected(broker)))

Connect ==
    \E env \in Environments :
        BrokerStep([op |-> "connect", env |-> env], connect(broker, env))

Disconnect == BrokerStep([op |-> "disconnect"], disconnect(broker))

GetAccount == BrokerStep([op |-> "get_account"], get_account(broker))

GetOptionChain ==
    \E u \in Underlyings, ex \in {None, Some(Today)} :
        BrokerStep([op |-> "get_option_chain", underlying |-> u, expiration |-> ex],
                   get_option_chain(broker, u, ex))

SubmitOrder ==
    \E qty \in SubmittedQuantities, side \in SubmittedSides,
       kind \in SubmittedKinds, lp \in SubmittedPrices, now \in TimesOfDay :
        BrokerStep([op |-> "submit_order", symbol |-> "SPY240315C00475000",
                    qty |-> qty, side |-> side, order_type |-> kind,
                    limit_price |-> lp],
                   submit_order(broker, "SPY240315C00475000", qty, side, kind, lp, now))

CancelOrder ==
    \E id \in OrderIds :
        BrokerStep([op |-> "cancel_order", order_id |-> id], cancel_order(broker, id))

GetOrderStatus ==
    \E id \in OrderIds :
        BrokerStep([op |-> "get_order_status", order_id |-> id],
                   get_order_status(broker, id))

GetPositions == BrokerStep([op |-> "get_positions"], get_positions(broker))

NextBroker ==
    \/ IsConnected \/ Connect \/ Disconnect \/ GetAccount \/ GetOptionChain
    \/ SubmitOrder \/ CancelOrder \/ GetOrderStatus \/ GetPositions

SpecBroker == InitBroker /\ [][NextBroker]_vars

\* ----------------------------------------------------------- PositionSizer

\* PositionSizer.__init__
PositionSizer(av, risk_per_trade_pct, max_contracts) ==
    [class |-> "PositionSizer", account_value |-> av,
     risk_per_trade_pct |-> risk_per_trade_pct, max_contracts |-> max_contracts]

\* The sizer's percentages are floats; the model writes them in tenths of a
\* percent (10 is 1.0, 500 is 50.0).  Decimal(str(pct / 100)) is the shortest
\* repr of the float quotient: pct/1000 + PctError(pct) * 10^-18, the error
\* being the one CPython gives for each percentage explored
\* (str(0.7 / 100) is '0.006999999999999999', str(0.9 / 100) is
\* '0.009000000000000001', the others are exact).
PctError(pct) ==
    CASE pct = 7 -> -1
      [] pct = 9 -> 1
      [] pct \in {0, 10, 20, 500, 1000} -> 0

Sign(x) == IF x < 0 THEN -1 ELSE IF x > 0 THEN 1 ELSE 0

\* PositionSizer.calculate_position_size.  max_risk and risk_per_contract
\* are kept times 1000 without the conversion errors, which leaves their
\* quotient as it is; tilt is the sign of what the conversion errors add to
\* the quotient of the two decimals,
\*   (av * (r + er)) / (mid * (s + es) * 100) - (av * r) / (mid * s * 100),
\* with mid > 0 and s > 0; int() truncates the decimal quotient, so an exact
\* quotient tilted towards zero loses one.
calculate_position_size(sz, contract, stop_loss_pct) ==
    LET mid == mid_price(contract) IN
    IF IsNone(mid) \/ Val(mid) <= 0 THEN 0
    ELSE LET max_risk == sz.account_value * sz.risk_per_trade_pct
             risk_per_contract == Val(mid) * stop_loss_pct * 100
             tilt == Sign(sz.account_value)
                       * Sign(PctError(sz.risk_per_trade_pct) * stop_loss_pct
                                - sz.risk_per_trade_pct * PctError(stop_loss_pct))
         IN IF risk_per_contract <= 0 THEN 0
            ELSE LET quotient == IntDiv(max_risk, risk_per_contract)
                     exact == quotient * risk_per_contract = max_risk
                     position_size ==
                         IF exact /\ quotient > 0 /\ tilt < 0 THEN quotient - 1
                         ELSE IF exact /\ quotient < 0 /\ tilt > 0 THEN quotient + 1
                         ELSE quotient
                 IN Min2(position_size, sz.max_contracts)

\* the sizers and arguments explored
Sizers ==
    {PositionSizer(av, r, m) :
        av \in {-100000, 0, 1000, 2700, 100000, 300000}, r \in {7, 10, 20},
        m \in {5, 10}}

SizerContracts ==
    {OptionContract("SPY", "call", 475, Today, q[1], q[2], q[3], Some(50)) :
        q \in {<<None, None, None>>, <<None, None, Some(3)>>,
               <<Some(0), Some(0), Some(3)>>, <<Some(2), Some(4), None>>}}

StopLossPcts == {0, 9, 500, 1000}

InitSizer ==
    /\ account_value = 0 /\ limits = DefaultLimits /\ daily_pnl = 0
    /\ open_positions = <<>>
    /\ strategy = NoObject /\ threads = <<>>
    /\ sizer \in Sizers /\ broker = NoObject
    /\ \E c \in SizerContracts, sl \in StopLossPcts :
          call = [op |-> "calculate_position_size", state |-> "pending",
                  contract |-> c, stop_loss_pct |-> sl]

CalculatePositionSize ==
    /\ call.op = "calculate_position_size" /\ call.state = "pending"
    /\ call' = [call EXCEPT !.state = "done"] @@
               [ret |-> calculate_position_size(sizer, call.contract,
                                                call.stop_loss_pct)]
    /\ UNCHANGED <<account_value, limits, daily_pnl, open_positions, strategy, sizer, broker, threads>>

NextSizer == CalculatePositionSize

SpecSizer == InitSizer /\ [][NextSizer]_vars

\* ------------------------------------------- RiskManager under two threads

\* The methods of RiskManager take no lock.  CPython switches threads between
\* bytecodes, so a method is a sequence of steps: the read and the write of
\* `self.daily_pnl += pnl`, the `in` test and the list.remove of
\* remove_position, and the reads of daily_pnl and of the ledger by the
\* successive checks of can_take_trade.

Threads == {1, 2}

ThreadPosition(oid, side) ==
    [oid |-> oid, contract |-> RiskContract("SPY"), quantity |-> 2,
     entry_price |-> 2, side |-> side]

InitialLedger == <<ThreadPosition(1, "sell")>>

ThreadLimits == RiskLimits(20, 1, 20, 40, 20, 25)

\* the call each thread makes
ThreadCalls ==
    {[op |-> "update_daily_pnl", arg |-> d] : d \in PnlDeltas}
    \cup {[op |-> "add_position", arg |-> ThreadPosition(2, "buy")],
          [op |-> "remove_position", arg |-> ThreadPosition(1, "sell")]}
    \cup {[op |-> "can_take_trade", arg |-> o] :
            o \in {Order(RiskContract("SPY"), "buy", 1, "limit", Some(2)),
                   Order(RiskContract("SPY"), "buy", 1, "market", None)}}

InitThreads ==
    /\ account_value = 2000 /\ limits = ThreadLimits
    /\ daily_pnl = 0
    /\ open_positions = InitialLedger
    /\ strategy = NoObject /\ sizer = NoObject /\ broker = NoObject
    /\ call = NoCall
    /\ threads \in [Threads -> {[op |-> c.op, arg |-> c.arg, pc |-> "start",
                                 tmp |-> None, ret |-> None] : c \in ThreadCalls}]

At(t, op, pc) == threads[t].op = op /\ threads[t].pc = pc

Goto(t, pc) == threads' = [threads EXCEPT ![t].pc = pc]

Finish(t, ret) == threads' = [threads EXCEPT ![t].pc = "done", ![t].ret = ret]

\* update_daily_pnl: the read of self.daily_pnl
UpdateLoad(t) ==
    /\ At(t, "update_daily_pnl", "start")
    /\ threads' = [threads EXCEPT ![t].pc = "loaded", ![t].tmp = Some(daily_pnl)]
    /\ UNCHANGED <<account_value, limits, daily_pnl, open_positions, strategy, sizer, broker, call>>

\* update_daily_pnl: the write of the sum
UpdateStore(t) ==
    /\ At(t, "update_daily_pnl", "loaded")
    /\ daily_pnl' = Val(threads[t].tmp) + threads[t].arg
    /\ Finish(t, Return(None))
    /\ UNCHANGED <<account_value, limits, open_positions, strategy, sizer, broker, call>>

\* add_position: list.append is one step
AddStep(t) ==
    /\ At(t, "add_position", "start")
    /\ open_positions' = Append(open_positions, threads[t].arg)
    /\ Finish(t, Return(None))
    /\ UNCHANGED <<account_value, limits, daily_pnl, strategy, sizer, broker, call>>

\* remove_position: `if position in self.open_positions`
RemoveTest(t) ==
    /\ At(t, "remove_position", "start")
    /\ IF InLedger(open_positions, threads[t].arg)
       THEN Goto(t, "found") ELSE Finish(t, Return(None))
    /\ UNCHANGED <<account_value, limits, daily_pnl, open_positions, strategy, sizer, broker, call>>

\* remove_position: self.open_positions.remove(position), which raises
\* ValueError when no element equals position any more
RemoveStep(t) ==
    /\ At(t, "remove_position", "found")
    /\ IF InLedger(open_positions, threads[t].arg)
       THEN /\ open_positions' = list_remove(open_positions, threads[t].arg)
            /\ Finish(t, Return(None))
       ELSE /\ open_positions' = open_positions
            /\ Finish(t, Raise("ValueError: list.remove(x): x not in list"))
    /\ UNCHANGED <<account_value, limits, daily_pnl, strategy, sizer, broker, call>>

\* can_take_trade: the daily-loss check reads daily_pnl
CheckDailyLoss(t) ==
    /\ At(t, "can_take_trade", "start")
    /\ IF daily_pnl < -DecimalPct(account_value, limits.max_daily_loss_pct)
       THEN Finish(t, Return(<<FALSE, DailyLossReason>>))
       ELSE Goto(t, "daily_loss_passed")
    /\ UNCHANGED <<account_value, limits, daily_pnl, open_positions, strategy, sizer, broker, call>>

\* can_take_trade: the portfolio-risk check reads the ledger
CheckPortfolioRisk(t) ==
    /\ At(t, "can_take_trade", "daily_loss_passed")
    /\ IF portfolio_risk_pct(account_value, open_positions)
            >= limits.max_portfolio_risk_pct
       THEN Finish(t, Return(<<FALSE, PortfolioRiskReason>>))
       ELSE Goto(t, "portfolio_risk_passed")
    /\ UNCHANGED <<account_value, limits, daily_pnl, open_positions, strategy, sizer, broker, call>>

\* can_take_trade: the remaining checks; the concentration check reads the
\* ledger again
CheckTrade(t) ==
    /\ At(t, "can_take_trade", "portfolio_risk_passed")
    /\ Finish(t, Return(trade_checks(account_value, limits, open_positions,
                                     threads[t].arg)))
    /\ UNCHANGED <<account_value, limits, daily_pnl, open_positions, strategy, sizer, broker, call>>

NextThreads ==
    \E t \in Threads :
        \/ UpdateLoad(t) \/ UpdateStore(t)
        \/ AddStep(t)
        \/ RemoveTest(t) \/ RemoveStep(t)
        \/ CheckDailyLoss(t) \/ CheckPortfolioRisk(t) \/ CheckTrade(t)

SpecThreads == InitThreads /\ [][NextThreads]_vars

\* ------------------------------------------------- claims: the risk engine

\* the ledger sums the claims speak of, over sets of ledger indices
RECURSIVE SumNotional(_)
SumNotional(I) ==
    IF I = {} THEN 0
    ELSE LET i == CHOOSE x \in I : TRUE
         IN open_positions[i].entry_price * open_positions[i].quantity * 100
            + SumNotional(I \ {i})

LongNotional ==
    SumNotional({i \in DOMAIN open_positions : open_positions[i].side = "buy"})

NotionalOn(u) ==
    SumNotional({i \in DOMAIN open_positions :
                    open_positions[i].contract.underlying = u})

Priced(o) == o.limit_price # <<>>
OrderNotional(o) == o.limit_price[1] * o.quantity * 100

\* check k of the admissibility check fails for order o in the current
\* state, as section 4.2 of the specification states the five checks
Fails(k, o) ==
    CASE k = 1 -> daily_pnl * 100 < -(account_value * limits.max_daily_loss_pct)
      [] k = 2 -> IF account_value <= 0
                  THEN 0 >= limits.max_portfolio_risk_pct
                  ELSE LongNotional * 100
                         >= limits.max_portfolio_risk_pct * account_value
      [] k = 3 -> Priced(o) /\ OrderNotional(o) * 100
                                > account_value * limits.max_single_trade_risk_pct
      [] k = 4 -> o.quantity > limits.max_position_size
      [] k = 5 -> Priced(o) /\ (NotionalOn(o.contract.underlying) + OrderNotional(o)) * 100
                                > account_value * limits.max_concentration_pct

RejectionOf(k, o) ==
    CASE k = 1 -> <<FALSE, [msg |-> "Daily loss limit reached"]>>
      [] k = 2 -> <<FALSE, [msg |-> "Portfolio risk limit reached"]>>
      [] k = 3 -> <<FALSE, [msg |-> "Trade risk exceeds limit",
                            trade_risk |-> OrderNotional(o),
                            max_trade_risk |->
                              (account_value * limits.max_single_trade_risk_pct) \div 100]>>
      [] k = 4 -> <<FALSE, [msg |-> "Position size exceeds limit",
                            quantity |-> o.quantity]>>
      [] k = 5 -> <<FALSE, [msg |-> "Concentration limit reached for",
                            underlying |-> o.contract.underlying]>>

Decided == call.op = "can_take_trade"

\* C1: can_take_trade returns the rejection of the first failing check, in
\* the order daily-loss, portfolio-risk, single-trade-risk, position-size,
\* concentration, whatever later checks would say, and returns
\* (true, "Trade approved") exactly when none of the five checks fails.
C1_FirstFailingCheckDecides ==
    Decided =>
        LET o == call.arg IN
        /\ \A k \in 1..5 :
              (Fails(k, o) /\ \A j \in 1..(k - 1) : ~Fails(j, o))
                  => call.ret = RejectionOf(k, o)
        /\ (call.ret[1] = TRUE) <=> (\A k \in 1..5 : ~Fails(k, o))
        /\ (call.ret[1] = TRUE) => call.ret[2] = [msg |-> "Trade approved"]

\* a priced order that fails both the single-trade-risk and the position-size
\* check, and is rejected for its trade risk
C1_Witness ==
    /\ Decided
    /\ ~Fails(1, call.arg) /\ ~Fails(2, call.arg)
    /\ Fails(3, call.arg) /\ Fails(4, call.arg)
    /\ call.ret = RejectionOf(3, call.arg)

\* C2: a priced order that passes checks 1-4 is rejected with the
\* concentration reason, naming its underlying, exactly when the notional of
\* all open positions (long and short) on its underlying plus
\* limit_price x quantity x 100 exceeds account_value x max_concentration_pct/100.
C2_ConcentrationIff ==
    (Decided /\ Priced(call.arg) /\ \A k \in 1..4 : ~Fails(k, call.arg)) =>
        LET o == call.arg
            u == o.contract.underlying
        IN (call.ret = <<FALSE, [msg |-> "Concentration limit reached for",
                                 underlying |-> u]>>)
           <=> ((NotionalOn(u) + OrderNotional(o)) * 100
                   > account_value * limits.max_concentration_pct)

\* a concentration rejection where a long and a short position on the
\* order's underlying both count
C2_Witness ==
    /\ Decided /\ Priced(call.arg)
    /\ call.ret[2].msg = "Concentration limit reached for"
    /\ \E i, j \in DOMAIN open_positions :
          /\ open_positions[i].side = "buy" /\ open_positions[j].side = "sell"
          /\ open_positions[i].contract.underlying = call.arg.contract.underlying
          /\ open_positions[j].contract.underlying = call.arg.contract.underlying

\* C3: an order with no limit price is never rejected by the
\* single-trade-risk or the concentration check; it is approved exactly when
\* the daily-loss, portfolio-risk and position-size checks pass.
C3_MarketOrderSkipsPricedChecks ==
    (Decided /\ ~Priced(call.arg)) =>
        /\ call.ret[2].msg \notin {"Trade risk exceeds limit",
                                   "Concentration limit reached for"}
        /\ (call.ret[1] = TRUE)
              <=> (~Fails(1, call.arg) /\ ~Fails(2, call.arg) /\ ~Fails(4, call.arg))

\* a market order approved although the exposure on its underlying is
\* already above the concentration limit
C3_Witness ==
    /\ Decided /\ ~Priced(call.arg)
    /\ call.ret[1] = TRUE
    /\ NotionalOn(call.arg.contract.underlying) * 100
          > account_value * limits.max_concentration_pct

EqualEntries(positions, p) ==
    {i \in DOMAIN positions :
        /\ positions[i].contract = p.contract
        /\ positions[i].quantity = p.quantity
        /\ positions[i].entry_price = p.entry_price
        /\ positions[i].side = p.side}

SameObject(positions, p) == {i \in DOMAIN positions : positions[i] = p}

Without(positions, k) ==
    [i \in 1..(Len(positions) - 1) |->
        IF i < k THEN positions[i] ELSE positions[i + 1]]

LeastOf(I) == CHOOSE k \in I : \A j \in I : k <= j

\* C9 as the specification states it: remove_position(p) removes the object
\* p itself; if p is not in the ledger the ledger is unchanged, even when an
\* equal position is in it; if p is in the ledger, an entry that is p is the
\* one removed.
C9_RemovesByIdentity ==
    [][call'.op = "remove_position" =>
          LET p == call'.arg
              mine == SameObject(open_positions, p)
          IN IF mine = {} THEN open_positions' = open_positions
             ELSE \E k \in mine : open_positions' = Without(open_positions, k)]_vars

\* C9, amended: remove_position(p) removes the first ledger entry that is
\* equal to p field by field (which may be another object than p) and leaves
\* all other entries in place; with no entry equal to p the ledger is
\* unchanged and no error is raised.
C9_RemovesFirstEqual ==
    [][call'.op = "remove_position" =>
          LET p == call'.arg
              equal == EqualEntries(open_positions, p)
          IN IF equal = {} THEN open_positions' = open_positions
             ELSE open_positions' = Without(open_positions, LeastOf(equal))]_vars

\* after remove_position(p), an object equal to p but not p is in the ledger
C9_Witness ==
    /\ call.op = "remove_position"
    /\ \E i \in EqualEntries(open_positions, call.arg) : open_positions[i] # call.arg

\* C10: in every state reached by add_position/remove_position,
\* portfolio_risk is the sum of entry_price x quantity x 100 over the long
\* positions of the ledger (short positions add nothing) and
\* calculate_max_loss() equals portfolio_risk.
C10_PortfolioRiskIsLongNotional ==
    /\ portfolio_risk(open_positions) = LongNotional
    /\ calculate_max_loss(open_positions) = portfolio_risk(open_positions)

\* a ledger holding a long and a short position, after a ledger mutation
C10_Witness ==
    /\ call.op \in {"add_position", "remove_position"}
    /\ \E i, j \in DOMAIN open_positions :
          open_positions[i].side = "buy" /\ open_positions[j].side = "sell"
    /\ portfolio_risk(open_positions) > 0

\* the full risk budget: account_value x max_portfolio_risk_pct / 100
FullBudget == (account_value * limits.max_portfolio_risk_pct) \div 100

\* C11: in every reachable RiskManager state available_risk_budget is
\* max(0, account_value x max_portfolio_risk_pct/100 - portfolio_risk): never
\* negative, the full budget when the ledger holds no long position, and 0
\* once the long notional reaches or exceeds the budget; get_risk_summary
\* reports that value.
C11_BudgetIsClampedRemainder ==
    LET budget == available_risk_budget(account_value, limits, open_positions)
    IN /\ budget = (IF FullBudget - LongNotional > 0
                    THEN FullBudget - LongNotional ELSE 0)
       /\ budget >= 0
       /\ LongNotional = 0 => budget = FullBudget
       /\ LongNotional >= FullBudget => budget = 0
       /\ call.op = "get_risk_summary" => call.ret.available_risk_budget = budget

\* a summary taken when the long notional exceeds a positive budget
C11_Witness ==
    /\ call.op = "get_risk_summary"
    /\ FullBudget > 0 /\ LongNotional > FullBudget
    /\ call.ret.available_risk_budget = 0

\* C12: daily_pnl is the sum of the deltas passed to update_daily_pnl since
\* the last reset_daily_pnl (or since construction): every update_daily_pnl
\* adds exactly its delta, unclamped in either direction, reset_daily_pnl
\* sets it to exactly 0, and no other operation changes it.
C12_DailyPnlIsSumSinceReset ==
    [][ /\ call'.op = "update_daily_pnl" => daily_pnl' = daily_pnl + call'.arg
        /\ call'.op = "reset_daily_pnl" => daily_pnl' = 0
        /\ call'.op \notin {"update_daily_pnl", "reset_daily_pnl"}
              => daily_pnl' = daily_pnl ]_vars

\* two losses accumulated, one after the other, with nothing clamped
C12_Witness ==
    /\ call.op = "update_daily_pnl" /\ call.arg < 0
    /\ daily_pnl = 2 * call.arg

\* C24: can_take_trade, get_risk_summary and the quantities derived from
\* the ledger are read-only: a step of either leaves account_value, limits,
\* daily_pnl and the ledger as they were and inspects the order it was
\* given, so a can_take_trade repeated on the same order right away returns
\* the same (bool, reason); the summary reports the derived quantities of the
\* unchanged state, and its open_positions_count is the ledger size.
C24_QueriesAreReadOnly ==
    [][ /\ call'.op \in {"can_take_trade", "get_risk_summary"}
             => /\ account_value' = account_value /\ limits' = limits
                /\ daily_pnl' = daily_pnl /\ open_positions' = open_positions
        /\ call'.op = "can_take_trade"
             => /\ call'.arg \in RiskOrders
                /\ call'.ret = can_take_trade(account_value', limits', daily_pnl',
                                              open_positions', call'.arg)
                /\ (call.op = "can_take_trade" /\ call.arg = call'.arg)
                      => call'.ret = call.ret
        /\ call'.op = "get_risk_summary"
             => /\ call'.ret.open_positions_count = Len(open_positions')
                /\ call'.ret.portfolio_risk = portfolio_risk(open_positions')
                /\ call'.ret.portfolio_risk_pct
                      = portfolio_risk_pct(account_value', open_positions')
                /\ call'.ret.available_risk_budget
                      = available_risk_budget(account_value', limits', open_positions')
                /\ call'.ret.max_possible_loss = calculate_max_loss(open_positions')
                /\ call'.ret.daily_pnl = daily_pnl' ]_vars

\* a summary taken over a ledger of two positions and a running loss
C24_Witness ==
    /\ call.op = "get_risk_summary"
    /\ Len(open_positions) = 2 /\ call.ret.open_positions_count = 2
    /\ daily_pnl < 0 /\ call.ret.daily_pnl = daily_pnl

\* the negative daily loss limit, and the states locked out by it
NegativeLossLimit == -DecimalPct(account_value, limits.max_daily_loss_pct)
LockedOut == daily_pnl < NegativeLossLimit

\* C27: while daily_pnl is strictly below -(account_value x
\* max_daily_loss_pct/100) can_take_trade rejects every order with "Daily
\* loss limit reached", whatever the order and the ledger; at daily_pnl equal
\* to the negative limit the daily-loss check does not reject; the lockout
\* persists across add_position, remove_position and can_take_trade and ends
\* only when update_daily_pnl or reset_daily_pnl brings daily_pnl back to at
\* least the negative limit.
C27_DailyLossLockout ==
    [][ /\ (call'.op = "can_take_trade" /\ LockedOut)
             => call'.ret = <<FALSE, DailyLossReason>>
        /\ (call'.op = "can_take_trade" /\ ~LockedOut)
             => call'.ret[2] # DailyLossReason
        /\ (LockedOut /\ call'.op \in {"add_position", "remove_position",
                                        "can_take_trade", "get_risk_summary"})
             => LockedOut'
        /\ (LockedOut /\ ~LockedOut')
             => /\ call'.op \in {"update_daily_pnl", "reset_daily_pnl"}
                /\ daily_pnl' >= NegativeLossLimit' ]_vars

\* an order asked about with daily_pnl exactly at the negative limit of a
\* funded account: not rejected for the daily loss
C27_Witness ==
    /\ call.op = "can_take_trade"
    /\ account_value > 0 /\ daily_pnl < 0 /\ daily_pnl = NegativeLossLimit
    /\ call.ret[2] # DailyLossReason

\* the lockout itself: a loss beyond the limit, an order asked about over a
\* ledger that holds a position
C27_LockedOutReached ==
    /\ call.op = "can_take_trade" /\ LockedOut /\ Len(open_positions) > 0
    /\ call.ret = <<FALSE, DailyLossReason>>

\* C28: whenever available_risk_budget is 0, also when account_value <= 0,
\* can_take_trade approves no order, limit or market: it returns
\* (false, reason).
C28_NoBudgetNoApproval ==
    (call.op = "can_take_trade"
       /\ available_risk_budget(account_value, limits, open_positions) = 0)
      => call.ret[1] = FALSE

\* C25: starting from an empty ledger with fixed positive account_value and
\* limits, when a position is added only as the full fill, at its limit
\* price, of a limit order that can_take_trade approved in the state just
\* before the add, portfolio_risk_pct never exceeds max_portfolio_risk_pct
\* whatever the sequence of approvals, adds and removals.
C25_PortfolioRiskWithinLimit ==
    account_value > 0
      => portfolio_risk(open_positions) * 100
           <= limits.max_portfolio_risk_pct * account_value

\* C26: under the same discipline, for any fixed account_value and limits,
\* the summed notional value of the open positions, long and short, on
\* each underlying never exceeds account_value x max_concentration_pct/100.
C26_ConcentrationWithinLimit ==
    \A u \in Underlyings :
        underlying_exposure(open_positions, u)
          <= DecimalPct(account_value, limits.max_concentration_pct)

\* two fills, one of them short, that bring an underlying exactly to its
\* concentration limit
C26_Witness ==
    /\ call.op = "add_position" /\ Len(open_positions) = 2
    /\ \E i \in 1..2 : ~is_long(open_positions[i])
    /\ underlying_exposure(open_positions, call.arg.contract.underlying)
         = DecimalPct(account_value, limits.max_concentration_pct)

\* --------------------------------------------- claims: the strategy engine

Generated == call.op = "generate_signal" /\ call.state = "done"
Emitted == Generated /\ call.ret.kind = "return" /\ call.ret.value # <<>>
EmittedSignal == call.ret.value[1]

\* C4: every contract of a signal that
\* generate_signal emits expires on the date of the decision, whatever the
\* input chain holds.
C4_EmittedContractsAre0DTE ==
    Emitted =>
        \A i \in DOMAIN EmittedSignal.contracts :
            EmittedSignal.contracts[i].expiration = EmittedSignal.timestamp.date

\* 15:15:00 in seconds of the day
QuarterPastThree == 15 * 3600 + 15 * 60

GateAsked == call.op = "is_within_trading_hours" /\ call.state = "done"

\* C13: with cutoff enforcement on, is_within_trading_hours(t) is true
\* exactly when t's time of day is strictly before 15:15:00, with no lower
\* bound; with enforcement off it is always true; and generate_signal of
\* every variant returns no signal whenever the gate is false.
C13_GateIsStrictCutoff ==
    LET before(t) == t.time < QuarterPastThree
        expected(t) == IF strategy.respect_cutoff THEN before(t) ELSE TRUE
    IN /\ GateAsked =>
             call.ret = expected(IF IsNone(call.current_time) THEN call.now
                                 ELSE Val(call.current_time))
       /\ Generated =>
             /\ ~IsNone(call.current_time)
                   => call.gate = expected(Val(call.current_time))
             /\ ~call.gate => call.ret = Return(None)

\* generate_signal at 15:15:00 sharp, on a chain that holds a call and a put
\* at one strike, with cutoff enforcement on: no signal
C13_Witness ==
    /\ Generated /\ strategy.respect_cutoff
    /\ call.current_time = Some(DateTime(Today, QuarterPastThree))
    /\ Len(call.available_contracts) = 2
    /\ call.available_contracts[1].option_type = "call"
    /\ call.available_contracts[2].option_type = "put"
    /\ call.available_contracts[1].strike = call.available_contracts[2].strike
    /\ ~call.gate /\ call.ret = Return(None)

\* the candidates of a single-leg strategy: positions in the chain of the
\* contracts of its option type
CandidateType == IF strategy.class = "LongCallStrategy" THEN "call" ELSE "put"
Candidates ==
    {i \in DOMAIN call.available_contracts :
        call.available_contracts[i].option_type = CandidateType}
WithDelta == {i \in Candidates : call.available_contracts[i].delta # <<>>}
DeltaDistance(i) ==
    LET d == call.available_contracts[i].delta[1] - strategy.target_delta
    IN IF d < 0 THEN -d ELSE d
StrikeDistance(i) ==
    LET d == call.available_contracts[i].strike - call.underlying_price
    IN IF d < 0 THEN -d ELSE d
FirstLeast(I, key(_)) ==
    CHOOSE i \in I : \A j \in I : key(i) < key(j) \/ (key(i) = key(j) /\ i <= j)

\* the position the selection rule names
SelectedIndex ==
    IF WithDelta # {} THEN FirstLeast(WithDelta, DeltaDistance)
    ELSE FirstLeast(Candidates, StrikeDistance)

SingleLeg == strategy.class \in {"LongCallStrategy", "LongPutStrategy"}

\* C14: long call (over calls) and long put (over puts) select one
\* contract: the least |delta - target| among the candidates that carry a
\* delta, or, when none carries one, the first candidate whose strike is
\* closest to the underlying price; the signal is that contract, buy,
\* quantity 1, confidence 0.70; without candidates there is no signal, and
\* the long put emits for every non-empty candidate list.
C14_SingleLegSelection ==
    (Generated /\ SingleLeg /\ call.ret.kind = "return") =>
       /\ Emitted =>
             /\ Candidates # {}
             /\ EmittedSignal.contracts = <<call.available_contracts[SelectedIndex]>>
             /\ EmittedSignal.sides = <<"buy">>
             /\ EmittedSignal.quantities = <<1>>
             /\ EmittedSignal.confidence = 70
             /\ EmittedSignal.strategy_type
                   = (IF CandidateType = "call" THEN "long_call" ELSE "long_put")
       /\ (strategy.class = "LongPutStrategy" /\ call.gate /\ Candidates # {}) => Emitted

\* two candidates, the second carrying the delta closer to the target than
\* the first: the second is emitted
C14_Witness ==
    /\ Generated /\ SingleLeg /\ Emitted
    /\ Cardinality(WithDelta) = 2
    /\ \E i, j \in WithDelta : i < j /\ DeltaDistance(j) < DeltaDistance(i)
                                 /\ SelectedIndex = j
    /\ EmittedSignal.contracts = <<call.available_contracts[2]>>

\* the selected contract's mid price is more than max_premium_pct percent of
\* the underlying price
TooRich(c) ==
    /\ ~(c.bid = <<>> \/ c.ask = <<>>)
    /\ ((c.bid[1] + c.ask[1]) \div 2) * 100
          > strategy.max_premium_pct * call.underlying_price

\* C15: the long call emits no signal when its selected contract is too
\* rich, without falling back to another call, and emits otherwise; the long
\* put emits for its selected put whatever the premium.
C15_PremiumCapOnlyOnLongCall ==
    (Generated /\ SingleLeg /\ call.gate /\ Candidates # {}
        /\ call.underlying_price > 0) =>
       LET selected == call.available_contracts[SelectedIndex]
       IN IF strategy.class = "LongCallStrategy"
          THEN IF TooRich(selected) THEN call.ret = Return(None)
               ELSE Emitted /\ EmittedSignal.contracts = <<selected>>
          ELSE Emitted /\ EmittedSignal.contracts = <<selected>>

\* a long call that gives up on a rich selected call although the chain
\* holds a cheaper one
C15_Witness ==
    /\ Generated /\ strategy.class = "LongCallStrategy"
    /\ Cardinality(Candidates) = 2
    /\ TooRich(call.available_contracts[SelectedIndex])
    /\ \E i \in Candidates : ~TooRich(call.available_contracts[i])
    /\ call.ret = Return(None)

ChainStrikes ==
    {call.available_contracts[i].strike : i \in DOMAIN call.available_contracts}
PriceDistance(k) ==
    IF k < call.underlying_price THEN call.underlying_price - k
    ELSE k - call.underlying_price
\* the strikes of the chain closest to the underlying price
ClosestStrikes == {k \in ChainStrikes : \A o \in ChainStrikes : PriceDistance(k) <= PriceDistance(o)}
Holds(t, k) ==
    \E i \in DOMAIN call.available_contracts :
        /\ call.available_contracts[i].option_type = t
        /\ call.available_contracts[i].strike = k
InChain(c) == \E i \in DOMAIN call.available_contracts : call.available_contracts[i] = c

\* C16: the straddle's ATM strike is the strike of the chain, calls and puts
\* pooled, closest to the underlying price; a signal is emitted exactly
\* when the chain holds a call and a put at that strike, never at another
\* strike, and never for an empty chain; its legs are [call, put] at the ATM
\* strike, both buy, quantity 1 each, confidence 0.65.
C16_StraddleAtClosestStrike ==
    (Generated /\ strategy.class = "StraddleStrategy" /\ call.gate) =>
       /\ call.ret.kind = "return"
       /\ call.available_contracts = <<>> => call.ret = Return(None)
       /\ Emitted =>
             LET legs == EmittedSignal.contracts
             IN /\ Len(legs) = 2
                /\ InChain(legs[1]) /\ legs[1].option_type = "call"
                /\ InChain(legs[2]) /\ legs[2].option_type = "put"
                /\ legs[1].strike = legs[2].strike
                /\ legs[1].strike \in ClosestStrikes
                /\ EmittedSignal.sides = <<"buy", "buy">>
                /\ EmittedSignal.quantities = <<1, 1>>
                /\ EmittedSignal.confidence = 65
                /\ EmittedSignal.strategy_type = "straddle"
       /\ \A k \in ClosestStrikes :
             ClosestStrikes = {k} => (Emitted <=> (Holds("call", k) /\ Holds("put", k)))

\* a straddle emitted from a chain that also holds a contract at a strike
\* farther from the price, placed first
C16_Witness ==
    /\ Generated /\ strategy.class = "StraddleStrategy" /\ Emitted
    /\ Len(call.available_contracts) = 3
    /\ call.available_contracts[1].strike \notin ClosestStrikes

OtmCalls ==
    {i \in DOMAIN call.available_contracts :
        /\ call.available_contracts[i].option_type = "call"
        /\ call.available_contracts[i].strike > call.underlying_price}
OtmPuts ==
    {i \in DOMAIN call.available_contracts :
        /\ call.available_contracts[i].option_type = "put"
        /\ call.available_contracts[i].strike < call.underlying_price}
StrikeAt(i) == call.available_contracts[i].strike
MinusStrikeAt(i) == 0 - call.available_contracts[i].strike

OrdersBuilt == call.op = "create_orders" /\ call.state = "done"

\* C6: create_orders raises the invalid-signal error, returning no orders,
\* whenever contracts is empty, or contracts, sides and quantities do not all
\* have the same length, or confidence is outside [0, 1]; it succeeds for
\* every other signal.
C6_InvalidSignalRejected ==
    OrdersBuilt =>
        LET sig == call.signal
            invalid == \/ Len(sig.contracts) = 0
                       \/ ~(/\ Len(sig.contracts) = Len(sig.sides)
                            /\ Len(sig.sides) = Len(sig.quantities))
                       \/ sig.confidence < 0 \/ sig.confidence > 100
        IN (call.ret = [kind |-> "raise", error |-> "ValueError: Invalid signal"])
              <=> invalid

\* C7: generate_signal of every variant returns a signal or None on every
\* input and never raises.
C7_GenerateSignalNeverRaises ==
    Generated => call.ret.kind = "return"

\* a signal that passes structural validation as the specification words it
StructurallyValid(sig) ==
    /\ Len(sig.contracts) > 0
    /\ Len(sig.contracts) = Len(sig.sides)
    /\ Len(sig.sides) = Len(sig.quantities)
    /\ 0 <= sig.confidence /\ sig.confidence <= 100

\* the mid price of a contract: the bid/ask average, else the last price
MidOf(c) ==
    IF c.bid # <<>> /\ c.ask # <<>> THEN <<(c.bid[1] + c.ask[1]) \div 2>>
    ELSE c.last_price

\* orders is what create_orders owes for the signal sig
OrdersOf(orders, sig) ==
    /\ Len(orders) = Len(sig.contracts)
    /\ \A i \in DOMAIN orders :
          /\ orders[i].contract = sig.contracts[i]
          /\ orders[i].side = sig.sides[i]
          /\ orders[i].quantity
                = (IF sig.quantities[i] <= strategy.max_position_size
                   THEN sig.quantities[i] ELSE strategy.max_position_size)
          /\ orders[i].limit_price = MidOf(sig.contracts[i])

\* C18: for a structurally valid signal create_orders returns one order per
\* leg, in leg order, with the leg's contract and direction, quantity
\* min(requested, max_position_size) and the contract's mid price as limit
\* price, and leaves the signal as it was.
C18_OneCappedOrderPerLeg ==
    [][ (call'.op = "create_orders" /\ call'.state = "done") =>
          LET given == IF call.op = "create_orders" THEN call.signal
                       ELSE call.ret.value[1]
          IN /\ call'.signal = given
             /\ StructurallyValid(given) =>
                   /\ call'.ret.kind = "return"
                   /\ OrdersOf(call'.ret.value, given) ]_vars

\* two legs built, one of them asking for more than max_position_size
C18_Witness ==
    /\ OrdersBuilt /\ StructurallyValid(call.signal)
    /\ Len(call.signal.contracts) = 2
    /\ call.ret.kind = "return"
    /\ \E i \in DOMAIN call.signal.quantities :
          /\ call.signal.quantities[i] > strategy.max_position_size
          /\ call.ret.value[i].quantity = strategy.max_position_size

Twice == call.op = "generate_signal" /\ call.state = "twice"

\* a result with the timestamp of its signal, if any, blanked
Untimed(r) ==
    IF r.kind = "return" /\ r.value # <<>>
    THEN <<[f \in DOMAIN r.value[1] \ {"timestamp"} |-> r.value[1][f]]>>
    ELSE r.value

\* both calls return no signal, or signals equal in strategy type,
\* contracts, directions, quantities, confidence and rationale
AgreeButTimestamp ==
    /\ call.ret.kind = "return" /\ call.again.kind = "return"
    /\ Untimed(call.ret) = Untimed(call.again)

\* C19: two calls of generate_signal with identical underlying_price,
\* available_contracts and current_time on one strategy either both return
\* no signal or return signals equal in every field but the timestamp, and
\* equal in the timestamp too when current_time is supplied.
C19_SameInputsSameSignal ==
    Twice =>
       /\ AgreeButTimestamp
       /\ call.current_time # <<>> => call.ret = call.again

\* C19, amended: the two calls agree in that way when current_time is
\* supplied; when it is omitted the gate reads the clock, and the two calls
\* agree in every field but the timestamp whenever their gates gave the same
\* answer (a call before the cutoff and one after it return a signal and
\* no signal).
C19_SameInputsSameSignalUnderSameGate ==
    Twice =>
       /\ call.current_time # <<>> => call.ret = call.again
       /\ call.gate = call.again_gate => AgreeButTimestamp

\* two calls without current_time, both emitting, stamped at different
\* times, on a chain whose two strikes are equidistant from the price
C19_Witness ==
    /\ Twice /\ call.current_time = <<>>
    /\ call.ret.kind = "return" /\ call.ret.value # <<>>
    /\ call.again.kind = "return" /\ call.again.value # <<>>
    /\ call.ret.value[1].timestamp # call.again.value[1].timestamp
    /\ Len(call.available_contracts) = 2
    /\ call.available_contracts[1].strike # call.available_contracts[2].strike
    /\ "orders" \in DOMAIN call

Validated == call.op = "validate" /\ call.state = "done"

\* C20: OptionContract.validate rejects every contract with an empty
\* symbol, an empty underlying, strike <= 0, a bid < 0, an ask < 0 or
\* bid > ask, and accepts a contract with symbol, underlying, positive
\* strike and neither bid nor ask.
C20_ValidateRejectsBadContracts ==
    Validated =>
       LET c == call.contract
           rejected == \/ c.symbol = "" \/ c.underlying = ""
                       \/ c.strike <= 0
                       \/ (c.bid # <<>> /\ c.bid[1] < 0)
                       \/ (c.ask # <<>> /\ c.ask[1] < 0)
                       \/ (c.bid # <<>> /\ c.ask # <<>> /\ c.bid[1] > c.ask[1])
       IN /\ rejected => call.ret = FALSE
          /\ (c.symbol # "" /\ c.underlying # "" /\ c.strike > 0
                 /\ c.bid = <<>> /\ c.ask = <<>>) => call.ret = TRUE

OrderValidated == call.op = "validate_order" /\ call.state = "done"
HasPrice(o) == o.limit_price # <<>>

\* C21: Order.validate accepts an order exactly when quantity > 0 and, for
\* a limit order, a limit price is present and > 0, a market order needing
\* none; validating never changes the order.
C21_ValidIffQuantityAndLimitPrice ==
    [][ (call'.op = "validate_order" /\ call'.state = "done") =>
          /\ call'.order = call.order
          /\ call'.ret <=>
                /\ call.order.quantity > 0
                /\ call.order.order_type = "limit"
                      => (HasPrice(call.order) /\ call.order.limit_price[1] > 0) ]_vars

\* C21, amended: Order.validate accepts an order exactly when quantity > 0,
\* a limit order carries a limit price, and the limit price of any order
\* that carries one, limit or not, is > 0; validating never changes the
\* order.
C21_ValidIffQuantityAndAnyPricePositive ==
    [][ (call'.op = "validate_order" /\ call'.state = "done") =>
          /\ call'.order = call.order
          /\ call'.ret <=>
                /\ call.order.quantity > 0
                /\ call.order.order_type = "limit" => HasPrice(call.order)
                /\ HasPrice(call.order) => call.order.limit_price[1] > 0 ]_vars

\* a market order of positive quantity carrying a limit price of 0: rejected
C21_Witness ==
    /\ OrderValidated
    /\ call.order.order_type = "market" /\ call.order.quantity > 0
    /\ call.order.limit_price = <<0>>
    /\ call.ret = FALSE

\* C29: every order that create_orders builds from a signal emitted by a
\* variant's generate_signal is valid under Order.validate (quantity > 0
\* and, being a limit order, a limit price present and > 0), for every
\* chain, contracts without bid/ask/last price or with a zero mid price
\* included.
C29_GeneratedOrdersAreValid ==
    (OrdersBuilt /\ call.signal.reason.text # "built" /\ call.ret.kind = "return")
      => \A i \in DOMAIN call.ret.value : order_validate(call.ret.value[i])

\* ------------------------------------------------------ claims: the broker

\* C22: submit_order returns no order id exactly when the broker is
\* disconnected, or side is neither buy nor sell, or quantity <= 0, or the
\* kind is limit and no limit price is given; otherwise it returns an order
\* id; it never changes the connection state.
C22_SubmitRejectsExactlyInvalid ==
    [][ call'.op = "submit_order" =>
          /\ (call'.ret = <<>>) <=>
                \/ ~broker.connected
                \/ call'.side \notin {"buy", "sell"}
                \/ call'.qty <= 0
                \/ (call'.order_type = "limit" /\ call'.limit_price = <<>>)
          /\ broker'.connected = broker.connected ]_vars

\* a market order without a price, submitted to a connected broker, gets an id
C22_Witness ==
    /\ call.op = "submit_order" /\ broker.connected
    /\ call.order_type = "market" /\ call.limit_price = <<>>
    /\ call.ret # <<>>

NoCredentials(env) == env.ALPACA_API_KEY = "" \/ env.ALPACA_API_SECRET = ""

\* what each operation returns on a broker that is not connected
DisconnectedAnswer(c) ==
    CASE c.op = "get_account" -> c.ret = <<>>
      [] c.op = "get_option_chain" -> c.ret = <<>>
      [] c.op = "get_positions" -> c.ret = <<>>
      [] c.op = "submit_order" -> c.ret = <<>>
      [] c.op = "get_order_status" -> c.ret = <<>>
      [] c.op = "cancel_order" -> c.ret = FALSE
      [] c.op = "is_connected" -> c.ret = FALSE
      [] OTHER -> TRUE

\* C30: is_connected is false initially, becomes true only by a successful
\* connect, stays false after a connect that fails (no config, no
\* credentials in the environment) and becomes false on disconnect, which
\* also clears the cached account; whenever is_connected is false,
\* get_account, submit_order and get_order_status return None,
\* get_option_chain and get_positions return empty lists and cancel_order
\* returns False.
C30_ConnectionStateMachine ==
    /\ ~broker.connected
    /\ [][ /\ (~broker.connected /\ broker'.connected)
                => (call'.op = "connect" /\ call'.ret = TRUE)
           /\ call'.op = "connect" =>
                 /\ call'.ret = ~(broker.config = <<>> /\ NoCredentials(call'.env))
                 /\ call'.ret = TRUE => broker'.connected
                 /\ call'.ret = FALSE => ~broker'.connected
           /\ call'.op = "disconnect"
                => (~broker'.connected /\ broker'.account = <<>>)
           /\ call'.op \notin {"connect", "disconnect"}
                => broker'.connected = broker.connected
           /\ ~broker.connected => DisconnectedAnswer(call') ]_vars

\* get_account on a broker that connected through the environment, fetched
\* its account and was disconnected: nothing cached, nothing returned
C30_Witness ==
    /\ call.op = "get_account"
    /\ broker.config = <<[api_key |-> "env-key", api_secret |-> "env-secret"]>>
    /\ ~broker.connected /\ broker.account = <<>>
    /\ call.ret = <<>>

\* ----------------------------------------------- claims: the position sizer

Sized == call.op = "calculate_position_size" /\ call.state = "done"

\* C8: calculate_position_size returns an integer q with
\* 0 <= q <= max_contracts, for every contract, account value,
\* risk_per_trade_pct, max_contracts and stop_loss_pct.
C8_SizeWithinBounds ==
    Sized => (0 <= call.ret /\ call.ret <= sizer.max_contracts)

\* the size the formula floor(max_risk / risk_per_contract), clamped to
\* max_contracts, gives in exact arithmetic (percentages in tenths of a
\* percent; \div rounds down)
ClampedFloor(sz, contract, stop_loss_pct) ==
    LET mid == mid_price(contract)
        max_risk == sz.account_value * sz.risk_per_trade_pct
        risk_per_contract == Val(mid) * stop_loss_pct * 100
    IN IF IsNone(mid) \/ Val(mid) <= 0 THEN 0
       ELSE IF risk_per_contract <= 0 THEN 0
       ELSE Min2(max_risk \div risk_per_contract, sz.max_contracts)

\* C23: calculate_position_size returns 0 when the contract has no mid
\* price, or mid price <= 0, or risk_per_contract <= 0, and otherwise
\* min(floor(max_risk / risk_per_contract), max_contracts) with
\* max_risk = account_value x risk_per_trade_pct/100 and
\* risk_per_contract = mid_price x stop_loss_pct/100 x 100; the call changes
\* no state.
C23_SizeIsClampedFloor ==
    Sized => call.ret = ClampedFloor(sizer, call.contract, call.stop_loss_pct)

\* ------------------------------------------------------ claims: concurrency

\* one call made alone on the manager state st = <<daily_pnl, ledger>>:
\* the state after it and what it returns
Alone(st, c) ==
    CASE c.op = "update_daily_pnl" ->
            <<st[1] + c.arg, st[2], [kind |-> "return", value |-> <<>>]>>
      [] c.op = "add_position" ->
            <<st[1], Append(st[2], c.arg), [kind |-> "return", value |-> <<>>]>>
      [] c.op = "remove_position" ->
            <<st[1], remove_position(st[2], c.arg), [kind |-> "return", value |-> <<>>]>>
      [] c.op = "can_take_trade" ->
            <<st[1], st[2],
              [kind |-> "return",
               value |-> can_take_trade(account_value, limits, st[1], st[2], c.arg)]>>

\* the final state and the returns when first makes its call alone, then second
OneAfterAnother(first, second) ==
    LET a == Alone(<<0, InitialLedger>>, threads[first])
        b == Alone(<<a[1], a[2]>>, threads[second])
    IN [daily_pnl |-> b[1], open_positions |-> b[2],
        rets |-> (first :> a[3]) @@ (second :> b[3])]

AllDone == threads # <<>> /\ \A t \in Threads : threads[t].pc = "done"

\* C5: concurrent calls of add_position, remove_position, update_daily_pnl
\* and can_take_trade on one RiskManager are equivalent to the same calls
\* made one after another in some order: same final daily_pnl and ledger,
\* same returned values, no update lost.
C5_CallsAreSerializable ==
    AllDone =>
        \E first, second \in Threads :
            /\ first # second
            /\ OneAfterAnother(first, second) =
                  [daily_pnl |-> daily_pnl, open_positions |-> open_positions,
                   rets |-> [t \in Threads |-> threads[t].ret]]

====
